---------------------------- MODULE Spec2Model ----------------------------
(***************************************************************************)
(* A model of the semantic engine of the bingo Go language server:         *)
(* reference search (references.go), definition lookup, hover dispatch     *)
(* and workspace symbol search (symbol.go).                                *)
(*                                                                         *)
(* Go strings are modelled as sequences of one-character strings, so that  *)
(* prefix tests, case folding and lexicographic order are computed.        *)
(* Package import paths and file names that the code only compares for     *)
(* equality are plain TLA+ strings.                                        *)
(***************************************************************************)
EXTENDS Integers, Sequences, FiniteSets, TLC

VARIABLES
    so,          \* sameObj evaluation: the three objects and the verdicts
    rc,          \* refStreamAndCollect evaluation: input refs, limit, output
    req,         \* a references/definition request, its document and the cache
    run,         \* the handler's progress on the request
    ctxErr,      \* ctx.Err() of the request context
    sreq,        \* a workspace/symbol request and the package cache
    srun,        \* the symbol handler's progress on the request
    fn,          \* evaluation of one of the pure functions: input and output
    proj         \* a Project, its environment and the watcher's events

vars == <<so, rc, req, run, ctxErr, sreq, srun, fn, proj>>

(***************************************************************************)
(* Bounds of the model.                                                    *)
(***************************************************************************)
MaxPtr == 2        \* distinct objects (pointers) with the same fields
MaxRefs == 3       \* length of a list of found references
MaxLimit == 2      \* largest XLimit of a request
MaxPkgs == 2       \* packages in the cache during a reference search
MaxChar == 1       \* largest character offset of a request position
MaxSymPkgs == 2    \* packages in the cache during a symbol search
MaxSymLimit == 2   \* largest explicit limit of a symbol request
BigPkgSize == 30   \* symbols of each of the two large packages
MaxTokens == 2     \* tokens of a query handed to score
MaxFields == 2     \* space-separated fields of a raw query string
MaxNamed == 3      \* named types defined in the cached packages
MaxPrettyLen == 4  \* length of a formatter string

(***************************************************************************)
(* Generic helpers.                                                        *)
(***************************************************************************)
SeqsUpTo(S, n) == UNION {[1..k -> S] : k \in 0..n}

Min(a, b) == IF a < b THEN a ELSE b

Nil == "<nil>"

(***************************************************************************)
(* Characters and strings.                                                 *)
(***************************************************************************)
UpperChars == {"A", "B", "C", "D", "E", "F", "G", "H", "I", "J", "K", "L", "M",
               "N", "O", "P", "Q", "R", "S", "T", "U", "V", "W", "X", "Y", "Z"}

\* go/ast.IsExported, types.Object.Exported: the first character is upper case.
IsExportedName(name) == name # <<>> /\ name[1] \in UpperChars

(***************************************************************************)
(* types.Object.  ptr is the object's identity (its address), pkg the      *)
(* import path of Pkg() or Nil when Pkg() is nil, imported the package a   *)
(* PkgName designates.  The type checker creates a PkgName only inside     *)
(* the importing package and leaves Pkg() nil only for objects of the      *)
(* universe scope.                                                         *)
(***************************************************************************)
ObjNames == {<<"F">>, <<"f">>}
ObjPkgPaths == {"p", "builtin"}
ImportedPkgs == {"I1", "I2"}

OwnedObjects ==
    [ptr : 1..MaxPtr, kind : {"Var"}, pkg : ObjPkgPaths, name : ObjNames,
     imported : {Nil}]

PkgNameObjects ==
    [ptr : 1..MaxPtr, kind : {"PkgName"}, pkg : ObjPkgPaths, name : ObjNames,
     imported : ImportedPkgs]

UniverseObjects ==
    [ptr : 1..MaxPtr, kind : {"Builtin", "TypeName"}, pkg : {Nil},
     name : ObjNames, imported : {Nil}]

Objects == OwnedObjects \cup PkgNameObjects \cup UniverseObjects

Exported(x) == IsExportedName(x.name)

\* sameObj with a builtin rule that tests only x.Pkg() for nil.
SameObjRuleNoNilCheck(x, y) ==
    IF x = y THEN "identical"
    ELSE IF x.pkg # Nil /\ y.pkg # Nil /\ x.pkg = y.pkg /\ x.name = y.name
            /\ Exported(x) /\ Exported(y) THEN "exported"
    ELSE IF x.pkg = Nil /\ x.name = y.name THEN "builtin"
    ELSE IF x.kind = "PkgName" /\ y.kind = "PkgName" /\ x.imported = y.imported
         THEN "pkgname"
    ELSE "none"

\* The rule of sameObj that decides the pair, in the order the code tests them.
SameObjRule(x, y) ==
    IF x = y THEN "identical"
    ELSE IF x.pkg # Nil /\ y.pkg # Nil /\ x.pkg = y.pkg /\ x.name = y.name
            /\ Exported(x) /\ Exported(y) THEN "exported"
    ELSE IF x.pkg = Nil /\ y.pkg = Nil /\ x.name = y.name THEN "builtin"
    ELSE IF x.kind = "PkgName" /\ y.kind = "PkgName" /\ x.imported = y.imported
         THEN "pkgname"
    ELSE "none"

sameObj(x, y) == SameObjRule(x, y) # "none"

(***************************************************************************)
(* ast.Ident values found by the search, and their LSP locations.  A       *)
(* position is NoPos or a place in a file of the shared file set.          *)
(* goRangeToLSPLocation gives the zero Location (URI "") for NoPos and     *)
(* otherwise the range from the position to the position plus the length   *)
(* of the name.                                                            *)
(***************************************************************************)
NoPos == [file |-> "", col |-> 0]
RefFiles == {"a.go", "b.go"}
FilePositions == [file : RefFiles, col : {1}]
Positions == {NoPos} \cup FilePositions
RefNames == {<<"F">>, <<"F", "f">>}
Idents == [pos : Positions, name : RefNames]

ZeroLocation == [uri |-> "", start |-> 0, end |-> 0]

goRangeToLSPLocation(pos, name) ==
    IF pos = NoPos THEN ZeroLocation
    ELSE [uri |-> pos.file, start |-> pos.col, end |-> pos.col + Len(name)]

\* fmt.Sprintf("%s:%s", loc.URI, loc.Range): the text determines the URI and
\* the range, so the key is modelled as the pair.
formatLocation(loc) == <<loc.uri, <<loc.start, loc.end>> >>

\* The loop without the test of the seen keys.
RECURSIVE CollectLoopNoSeen(_, _, _, _, _)
CollectLoopNoSeen(refs, l, i, seen, locs) ==
    IF i > l THEN locs
    ELSE LET loc == goRangeToLSPLocation(refs[i].pos, refs[i].name)
             key == formatLocation(loc)
         IN  IF loc.uri = ""
             THEN CollectLoopNoSeen(refs, l, i + 1, seen, locs)
             ELSE CollectLoopNoSeen(refs, l, i + 1, seen \cup {key},
                                    Append(locs, loc))

\* The loop of refStreamAndCollect over refs[i..l].
RECURSIVE CollectLoop(_, _, _, _, _)
CollectLoop(refs, l, i, seen, locs) ==
    IF i > l THEN locs
    ELSE LET loc == goRangeToLSPLocation(refs[i].pos, refs[i].name)
             key == formatLocation(loc)
         IN  IF loc.uri = "" THEN CollectLoop(refs, l, i + 1, seen, locs)
             ELSE IF key \in seen THEN CollectLoop(refs, l, i + 1, seen, locs)
             ELSE CollectLoop(refs, l, i + 1, seen \cup {key}, Append(locs, loc))

refStreamAndCollect(refs, limit) ==
    LET lim == IF limit = 0 THEN Len(refs) ELSE limit
        l == IF lim < Len(refs) THEN lim ELSE Len(refs)
    IN  CollectLoop(refs, l, 1, {}, <<>>)

(***************************************************************************)
(* Errors.  NoErr is Go's nil error.                                       *)
(***************************************************************************)
NoErr == "nil"
ErrCanceled == "context canceled"
ErrInvalidNode == "InvalidNodeError"
ErrTypeCheck == "typeCheck error"
ErrNoGo == "build.NoGoError"
ErrNoNode == "no node found"
ErrRefObjNotFound == "references object not found"
ErrNoPackage == "no package found for object"
ErrDefNotFound == "definition not found"

Result(locs, err) == [locs |-> locs, err |-> err]

(***************************************************************************)
(* What position resolution yields at one character of the document:       *)
(* the outcome of typeCheck, the outcome of GetPathNodes, the kind of      *)
(* pathNodes[0], the kind of CallExpr.Fun, and whether FindIdentObject     *)
(* finds an object for the identifier the handler reduces the node to.     *)
(* typeCheck fails with InvalidNodeError, with build.NoGoError (every      *)
(* file of the directory is excluded by build constraints) or with some    *)
(* other error.  A CallExpr.Fun of kind CallExpr is a nested call whose    *)
(* innermost function is an identifier.                                    *)
(***************************************************************************)
NodeKinds == {"Ident", "FuncDecl", "TypeSpec", "CallExpr", "SelectorExpr",
              "BasicLit", "Other"}

Cell(tc, path, node, fun, hasObj) ==
    [tc |-> tc, path |-> path, node |-> node, fun |-> fun, hasObj |-> hasObj]

FailedCells ==
    {Cell("InvalidNode", "none", "none", "none", FALSE),
     Cell("NoGo", "none", "none", "none", FALSE),
     Cell("Error", "none", "none", "none", FALSE),
     Cell("ok", "Error", "none", "none", FALSE)}

NodeCells ==
    {Cell("ok", "ok", n, "none", b) : n \in NodeKinds \ {"CallExpr"}, b \in BOOLEAN}
    \cup {Cell("ok", "ok", "CallExpr", f, b) :
            f \in {"Ident", "SelectorExpr", "CallExpr", "Other"}, b \in BOOLEAN}

AllCells == FailedCells \cup NodeCells

IdentCell == Cell("ok", "ok", "Ident", "none", TRUE)

\* The cells a reference search is started from or retried at.
SearchCells ==
    {IdentCell,
     Cell("ok", "ok", "FuncDecl", "none", TRUE),
     Cell("ok", "ok", "BasicLit", "none", FALSE),
     Cell("InvalidNode", "none", "none", "none", FALSE)}

(***************************************************************************)
(* Cached packages.  imports holds the import paths GetImport answers,     *)
(* hasInfo whether GetTypesInfo() is non-nil, uses the entries of          *)
(* TypesInfo.Uses in the order this run's map iteration yields them, defs  *)
(* the named positions FindObject can find in the package.                 *)
(***************************************************************************)
At(file, col) == [file |-> file, col |-> col]

Obj(ptr, kind, pkg, name, imported) ==
    [ptr |-> ptr, kind |-> kind, pkg |-> pkg, name |-> name,
     imported |-> imported]

Use(file, col, obj) ==
    [id |-> [pos |-> At(file, col), name |-> obj.name], obj |-> obj]

Pkg(path, imports, hasInfo, uses, defs) ==
    [path |-> path, imports |-> imports, hasInfo |-> hasInfo, uses |-> uses,
     defs |-> defs]

ObjFp == Obj(1, "Var", "p", <<"F">>, Nil)          \* exported F of package p
ObjFpTest == Obj(2, "Var", "p", <<"F">>, Nil)      \* F again, in p's test variant
ObjLen == Obj(1, "Builtin", Nil, <<"f">>, Nil)     \* a universe builtin
ObjErrorType == Obj(1, "TypeName", Nil, <<"F">>, Nil) \* a universe type
ObjFb == Obj(1, "Var", "builtin", <<"F">>, Nil)    \* declared in package builtin

PkgPool ==
    {Pkg("p", {}, TRUE, <<Use("p.go", 2, ObjFp)>>, {}),
     Pkg("p", {}, TRUE,
         <<Use("p.go", 2, ObjFpTest), Use("p_test.go", 1, ObjFpTest)>>, {}),
     Pkg("q", {"p"}, TRUE, <<Use("q.go", 1, ObjFp), Use("q.go", 2, ObjLen)>>, {}),
     Pkg("r", {}, TRUE, <<Use("r.go", 1, ObjLen), Use("r.go", 2, ObjFp)>>, {}),
     Pkg("n", {"p"}, FALSE, <<>>, {}),
     Pkg("builtin", {}, TRUE, <<Use("builtin.go", 2, ObjFb)>>,
         {[name |-> <<"f">>, pos |-> At("builtin.go", 3)]})}

\* Sequences of distinct packages of the pool, in the order Walk visits them.
Caches ==
    {c \in SeqsUpTo(PkgPool, MaxPkgs) :
        \A i, j \in 1..Len(c) : i # j => c[i] # c[j]}

\* The objects a request resolves to, with obj.Pos().
QueryObjs ==
    {[obj |-> ObjFp, declPos |-> At("p.go", 1)],
     [obj |-> ObjLen, declPos |-> NoPos],
     [obj |-> ObjErrorType, declPos |-> NoPos],
     [obj |-> ObjFb, declPos |-> At("builtin.go", 1)]}

\* PackageCache.Get: the cached package of an import path; <<>> stands for
\* nil, a one-element sequence for the package.
GetFromPkgPath(cache, path) ==
    IF \E i \in 1..Len(cache) : cache[i].path = path
    THEN <<cache[CHOOSE i \in 1..Len(cache) :
                    /\ cache[i].path = path
                    /\ \A j \in 1..(i - 1) : cache[j].path # path]>>
    ELSE <<>>

\* FindObject: the same-named definition inside a package; <<>> stands for nil.
FindObject(pkg, obj) ==
    IF \E d \in pkg.defs : d.name = obj.name
    THEN <<CHOOSE d \in pkg.defs : d.name = obj.name>>
    ELSE <<>>

\* The error of a failed typeCheck.
TypeCheckError(cell) == IF cell.tc = "NoGo" THEN ErrNoGo ELSE ErrTypeCheck

(***************************************************************************)
(* doHandleTextDocumentReferences up to the call of findReferences:        *)
(* either the attempt returns (done), or the search starts.                *)
(***************************************************************************)
RefsResolve(cell, obj) ==
    IF cell.tc = "InvalidNode" THEN [done |-> TRUE, res |-> Result(<<>>, NoErr)]
    ELSE IF cell.tc # "ok"
         THEN [done |-> TRUE, res |-> Result(<<>>, TypeCheckError(cell))]
    ELSE IF cell.path # "ok" THEN [done |-> TRUE, res |-> Result(<<>>, ErrNoNode)]
    ELSE IF cell.node \notin {"Ident", "FuncDecl"}
         THEN [done |-> TRUE, res |-> Result(<<>>, ErrInvalidNode)]
    ELSE IF ~cell.hasObj
         THEN [done |-> TRUE, res |-> Result(<<>>, ErrRefObjNotFound)]
    ELSE IF obj.pkg = Nil /\ obj.kind # "Builtin"
         THEN [done |-> TRUE, res |-> Result(<<>>, ErrNoPackage)]
    ELSE [done |-> FALSE, res |-> Result(<<>>, NoErr)]

\* findReferences: the defining package path, "builtin" for an unowned object.
BuiltinPkg == "builtin"

DefPkgPath(obj) == IF obj.pkg # Nil THEN obj.pkg ELSE BuiltinPkg

\* The walk function of findReferences skips the package without scanning.
SkipsPackage(pkg, defPkgPath) ==
    /\ defPkgPath # BuiltinPkg
    /\ defPkgPath \notin pkg.imports
    /\ pkg.path # defPkgPath

\* The identifiers the scan of one package's Uses appends.
RECURSIVE ScanUses(_, _)
ScanUses(uses, queryObj) ==
    IF uses = <<>> THEN <<>>
    ELSE LET rest == ScanUses(Tail(uses), queryObj)
         IN  IF sameObj(queryObj, Head(uses).obj)
             THEN <<Head(uses).id>> \o rest
             ELSE rest

\* The tail of doHandleTextDocumentReferences once findReferences returned.
RefsFinish(refs, obj, declPos, includeDeclaration, limit) ==
    refStreamAndCollect(
        IF includeDeclaration
        THEN Append(refs, [pos |-> declPos, name |-> obj.name]) ELSE refs,
        limit)

(***************************************************************************)
(* doHandleXDefinition.  obj stands for the object after the embedded      *)
(* field substitution of lookupIdentDefinition.                            *)
(***************************************************************************)
lookupIdentDefinition(cell, obj, declPos, cache) ==
    IF ~cell.hasObj THEN Result(<<>>, ErrDefNotFound)
    ELSE IF declPos # NoPos
         THEN Result(<<goRangeToLSPLocation(declPos, obj.name)>>, NoErr)
    ELSE LET bpkg == GetFromPkgPath(cache, BuiltinPkg)
         IN  IF bpkg = <<>> THEN Result(<<>>, NoErr)
             ELSE LET bobj == FindObject(bpkg[1], obj)
                  IN  IF bobj = <<>> THEN Result(<<>>, NoErr)
                      ELSE Result(<<goRangeToLSPLocation(bobj[1].pos,
                                                         bobj[1].name)>>, NoErr)

lookupCallExprDefinition(cell, obj, declPos, cache) ==
    IF cell.fun \in {"Ident", "SelectorExpr"}
    THEN lookupIdentDefinition(cell, obj, declPos, cache)
    ELSE Result(<<>>, ErrInvalidNode)

doHandleXDefinition(cell, obj, declPos, cache) ==
    IF cell.tc = "InvalidNode" THEN Result(<<>>, NoErr)
    ELSE IF cell.tc # "ok" THEN Result(<<>>, TypeCheckError(cell))
    ELSE IF cell.path # "ok" THEN Result(<<>>, ErrNoNode)
    ELSE IF cell.node \in {"Ident", "TypeSpec", "SelectorExpr"}
         THEN lookupIdentDefinition(cell, obj, declPos, cache)
    ELSE IF cell.node = "CallExpr"
         THEN lookupCallExprDefinition(cell, obj, declPos, cache)
    ELSE Result(<<>>, ErrInvalidNode)

(***************************************************************************)
(* handleTextDocumentReferences and handleXDefinition: the retry.          *)
(***************************************************************************)
\* A retry that an empty result triggers as well.
ShouldRetryOnEmpty(att, res) == att = 1 /\ (res.err # NoErr \/ res.locs = <<>>)

\* The retry of the code: the first attempt returned an error.
ShouldRetry(att, res) == att = 1 /\ res.err # NoErr

\* An attempt returned res: retry at character-1, or answer the request.
AttemptReturn(r, res) ==
    LET entry == [chr |-> r.chr, locs |-> res.locs, err |-> res.err]
    IN  IF ShouldRetry(r.att, res)
        THEN [r EXCEPT !.pc = "attempt", !.att = 2, !.chr = r.chr - 1,
                       !.log = Append(r.log, entry),
                       !.widx = 0, !.refs = <<>>, !.scanned = {}, !.skipped = {}]
        ELSE [r EXCEPT !.pc = "done", !.log = Append(r.log, entry),
                       !.resp = res]

\* PackageCache.Walk stops at the first error of the walk function and
\* returns it.
WalkStops(ferr) == ferr # NoErr

(***************************************************************************)
(* Go strings as sequences of characters: the functions of package         *)
(* strings and package path that the symbol search calls.                  *)
(***************************************************************************)
UpperSeq == <<"A", "B", "C", "D", "E", "F", "G", "H", "I", "J", "K", "L", "M", "N", "O", "P", "Q", "R", "S", "T", "U", "V", "W", "X", "Y", "Z">>

LowerSeq == <<"a", "b", "c", "d", "e", "f", "g", "h", "i", "j", "k", "l", "m", "n", "o", "p", "q", "r", "s", "t", "u", "v", "w", "x", "y", "z">>

Digits == <<"0", "1", "2", "3", "4", "5", "6", "7", "8", "9">>

\* The characters of the model in the order of their byte values.
CharOrder == <<" ", "*", "-", ".", "/">> \o Digits \o <<":">> \o UpperSeq \o <<"\\", "_">> \o LowerSeq

Ord(c) == CHOOSE i \in 1..Len(CharOrder) : CharOrder[i] = c

ToLowerChar(c) ==
    IF c \in UpperChars
    THEN LowerSeq[CHOOSE i \in 1..Len(UpperSeq) : UpperSeq[i] = c]
    ELSE c

ToLower(s) == [i \in 1..Len(s) |-> ToLowerChar(s[i])]

HasPrefix(s, p) == Len(p) <= Len(s) /\ SubSeq(s, 1, Len(p)) = p

TrimPrefix(s, p) == IF HasPrefix(s, p) THEN SubSeq(s, Len(p) + 1, Len(s)) ELSE s

\* strings.Index plus one: the first place sub occurs in s, 0 when it does not.
Index(s, sub) ==
    LET places == {i \in 1..(Len(s) - Len(sub) + 1) :
                      SubSeq(s, i, i + Len(sub) - 1) = sub}
    IN  IF places = {} THEN 0
        ELSE CHOOSE i \in places : \A j \in places : i <= j

Contains(s, sub) == Index(s, sub) # 0

\* The < of Go strings: lexicographic by byte.
StrLess(a, b) ==
    \E k \in 1..(Min(Len(a), Len(b)) + 1) :
        /\ \A i \in 1..(k - 1) : a[i] = b[i]
        /\ \/ k > Len(a) /\ k <= Len(b)
           \/ k <= Len(a) /\ k <= Len(b) /\ Ord(a[k]) < Ord(b[k])

\* strings.FieldsFunc: the maximal runs of characters outside seps.
RECURSIVE FieldsFuncAcc(_, _, _, _)
FieldsFuncAcc(s, seps, cur, out) ==
    IF s = <<>> THEN (IF cur = <<>> THEN out ELSE Append(out, cur))
    ELSE IF Head(s) \in seps
         THEN FieldsFuncAcc(Tail(s), seps, <<>>,
                            IF cur = <<>> THEN out ELSE Append(out, cur))
    ELSE FieldsFuncAcc(Tail(s), seps, Append(cur, Head(s)), out)

FieldsFunc(s, seps) == FieldsFuncAcc(s, seps, <<>>, <<>>)

Fields(s) == FieldsFunc(s, {" "})

\* strings.SplitN(s, sep, 2)[0]
SplitFirst(s, sep) ==
    IF Index(s, sep) = 0 THEN s ELSE SubSeq(s, 1, Index(s, sep) - 1)

RECURSIVE StripTrailingSlashes(_)
StripTrailingSlashes(p) ==
    IF p # <<>> /\ p[Len(p)] = "/"
    THEN StripTrailingSlashes(SubSeq(p, 1, Len(p) - 1))
    ELSE p

LastSlash(p) ==
    IF \E i \in 1..Len(p) : p[i] = "/"
    THEN CHOOSE i \in 1..Len(p) :
            p[i] = "/" /\ \A j \in (i + 1)..Len(p) : p[j] # "/"
    ELSE 0

\* path.Base
Base(p) ==
    IF p = <<>> THEN <<".">>
    ELSE LET q == StripTrailingSlashes(p)
             r == SubSeq(q, LastSlash(q) + 1, Len(q))
         IN  IF r = <<>> THEN <<"/">> ELSE r

\* path.Clean on paths without "." and ".." elements: repeated slashes
\* collapse, a trailing slash goes, the empty path becomes ".".
RECURSIVE CollapseSlashes(_)
CollapseSlashes(p) ==
    IF Len(p) < 2 THEN p
    ELSE IF p[1] = "/" /\ p[2] = "/" THEN CollapseSlashes(Tail(p))
    ELSE <<p[1]>> \o CollapseSlashes(Tail(p))

Clean(p) ==
    IF p = <<>> THEN <<".">>
    ELSE LET c == CollapseSlashes(p)
         IN  IF Len(c) > 1 /\ c[Len(c)] = "/" THEN SubSeq(c, 1, Len(c) - 1)
             ELSE c

\* path.Join of two elements: empty elements are ignored, the rest is joined
\* by a slash and cleaned.
Join(a, b) ==
    IF a = <<>> /\ b = <<>> THEN <<>>
    ELSE IF a = <<>> THEN Clean(b)
    ELSE IF b = <<>> THEN Clean(a)
    ELSE Clean(a \o <<"/">> \o b)

\* util.IsURI, util.UriToPath, util.PathToURI, util.PathEqual: a URI is
\* "file://" followed by the path; paths are equal when they are equal
\* after every backslash is replaced by a slash.
FileScheme == <<"f", "i", "l", "e", ":", "/", "/">>

IsURI(uri) == HasPrefix(uri, FileScheme)

UriToPath(uri) == TrimPrefix(uri, FileScheme)

PathToURI(p) == FileScheme \o p

NormalizeSeparators(p) == [i \in 1..Len(p) |-> IF p[i] = "\\" THEN "/" ELSE p[i]]

PathEqual(a, b) == NormalizeSeparators(a) = NormalizeSeparators(b)

(***************************************************************************)
(* Workspace symbol search: queries.                                       *)
(***************************************************************************)
NoKind == "0"
NoFilter == ""
FilterExported == "exported"
FilterDir == "dir"

\* The keywords map.
keywords ==
    (<<"p", "a", "c", "k", "a", "g", "e">> :> "SKPackage") @@ (<<"t", "y", "p", "e">> :> "SKClass")
    @@ (<<"m", "e", "t", "h", "o", "d">> :> "SKMethod") @@ (<<"f", "i", "e", "l", "d">> :> "SKField")
    @@ (<<"f", "u", "n", "c">> :> "SKFunction") @@ (<<"v", "a", "r">> :> "SKVariable")
    @@ (<<"c", "o", "n", "s", "t">> :> "SKConstant")

\* lspext.SymbolDescriptor is a map; NoSymbol is the nil map.
NoSymbol == <<>>

ZeroQuery ==
    [Kind |-> NoKind, Filter |-> NoFilter, File |-> <<>>, Dir |-> <<>>,
     Tokens |-> <<>>, Symbol |-> NoSymbol]

\* The inner loop of ParseQuery over the tokens of one field.
RECURSIVE ParseTokens(_, _)
ParseTokens(qu, tokens) ==
    IF tokens = <<>> THEN qu
    ELSE LET tok == Head(tokens)
         IN  IF tok \in DOMAIN keywords
             THEN ParseTokens([qu EXCEPT !.Kind = keywords[tok]], Tail(tokens))
             ELSE ParseTokens([qu EXCEPT !.Tokens = Append(qu.Tokens, tok)],
                              Tail(tokens))

\* The outer loop of ParseQuery over the fields.
RECURSIVE ParseFields(_, _)
ParseFields(qu, fields) ==
    IF fields = <<>> THEN qu
    ELSE LET field == Head(fields)
         IN  IF HasPrefix(field, <<"d", "i", "r", ":">>)
             THEN ParseFields([qu EXCEPT !.Filter = FilterDir,
                                         !.Dir = TrimPrefix(field, <<"d", "i", "r", ":">>)],
                              Tail(fields))
             ELSE IF field = <<"i", "s", ":", "e", "x", "p", "o", "r", "t", "e", "d">>
             THEN ParseFields([qu EXCEPT !.Filter = FilterExported], Tail(fields))
             ELSE ParseFields(ParseTokens(qu, FieldsFunc(field, {".", "/"})),
                              Tail(fields))

ParseQuery(q) == ParseFields(ZeroQuery, Fields(ToLower(q)))

(***************************************************************************)
(* Symbols.  A symbolPair is the SymbolInformation (Name, ContainerName,   *)
(* Kind, the URI of its Location) with the descriptor.                     *)
(***************************************************************************)
toSym(name, pkgPath, pkgName, container, recv, kind, filename) ==
    [Name |-> name, ContainerName |-> container, Kind |-> kind,
     URI |-> PathToURI(filename),
     desc |-> [vendor |-> FALSE, package |-> Clean(pkgPath),
               packageName |-> pkgName, recv |-> recv, name |-> name,
               id |-> IF container = <<>>
                      THEN Clean(pkgPath) \o <<"/", "-", "/">> \o name
                      ELSE Clean(pkgPath) \o <<"/", "-", "/">> \o container \o <<"/">>
                           \o name]]

\* symbolDescriptor.Contains: every key of the queried descriptor is a field
\* of the symbol's descriptor with the same value.
DescContains(desc, dst) ==
    \A k \in DOMAIN dst : k \in DOMAIN desc /\ desc[k] = dst[k]

isExported(sym) ==
    IF sym.ContainerName = <<>> THEN IsExportedName(sym.Name)
    ELSE IsExportedName(sym.ContainerName) /\ IsExportedName(sym.Name)

\* The token loop body with the last-token bonus given to every token.
TokenScoreAlwaysLast(token, i, n, name, container, filename) ==
    LET tok == ToLower(token)
    IN  (IF HasPrefix(container, tok) THEN 2 ELSE 0)
        + (IF HasPrefix(name, tok) THEN 3 ELSE 0)
        + (IF Contains(filename, tok) /\ Len(tok) >= 3 THEN 1 ELSE 0)
        + (IF HasPrefix(Base(filename), tok) /\ Len(tok) >= 3 THEN 2 ELSE 0)
        + (IF tok = name THEN 50 ELSE 0)
        + (IF tok = container THEN 3 ELSE 0)

\* The body of the token loop of score for the i-th of n tokens.
TokenScore(token, i, n, name, container, filename) ==
    LET tok == ToLower(token)
    IN  (IF HasPrefix(container, tok) THEN 2 ELSE 0)
        + (IF HasPrefix(name, tok) THEN 3 ELSE 0)
        + (IF Contains(filename, tok) /\ Len(tok) >= 3 THEN 1 ELSE 0)
        + (IF HasPrefix(Base(filename), tok) /\ Len(tok) >= 3 THEN 2 ELSE 0)
        + (IF tok = name THEN (IF i = n THEN 50 ELSE 5) ELSE 0)
        + (IF tok = container THEN 3 ELSE 0)

RECURSIVE TokensScore(_, _, _, _, _)
TokensScore(tokens, i, name, container, filename) ==
    IF i > Len(tokens) THEN 0
    ELSE TokenScore(tokens[i], i, Len(tokens), name, container, filename)
         + TokensScore(tokens, i + 1, name, container, filename)

score(q, s) ==
    IF q.Kind # NoKind /\ q.Kind # s.Kind THEN 0
    ELSE IF q.Symbol # NoSymbol /\ ~DescContains(s.desc, q.Symbol) THEN 0 - 1
    ELSE IF ~IsURI(s.URI) THEN 0
    ELSE LET name == ToLower(s.Name)
             container == ToLower(s.ContainerName)
             filename == UriToPath(s.URI)
         IN  IF q.File # <<>> /\ filename # q.File THEN 0
             ELSE IF Len(q.Tokens) = 0 THEN 2
             ELSE LET scor == TokensScore(q.Tokens, 1, name, container, filename)
                      boosted ==
                          IF scor > 0 /\ ~(HasPrefix(filename, <<"v", "e", "n", "d", "o", "r", "/">>)
                                           \/ Contains(filename, <<"/", "v", "e", "n", "d", "o", "r", "/">>))
                          THEN scor + 5 ELSE scor
                  IN  IF boosted > 0 /\ IsExportedName(s.Name)
                      THEN boosted + 1 ELSE boosted

\* resultSorter.Collect
Collect(results, q, si) ==
    IF score(q, si) > 0
    THEN Append(results, [score |-> score(q, si), sym |-> si])
    ELSE results

\* resultSorter.Less with the scores compared the wrong way round.
LessScoreAscending(a, b) ==
    IF a.score = b.score
    THEN IF a.sym.ContainerName = b.sym.ContainerName
         THEN IF a.sym.Name = b.sym.Name
              THEN StrLess(a.sym.URI, b.sym.URI)
              ELSE StrLess(a.sym.Name, b.sym.Name)
         ELSE StrLess(a.sym.ContainerName, b.sym.ContainerName)
    ELSE a.score < b.score

\* resultSorter.Less
Less(a, b) ==
    IF a.score = b.score
    THEN IF a.sym.ContainerName = b.sym.ContainerName
         THEN IF a.sym.Name = b.sym.Name
              THEN StrLess(a.sym.URI, b.sym.URI)
              ELSE StrLess(a.sym.Name, b.sym.Name)
         ELSE StrLess(a.sym.ContainerName, b.sym.ContainerName)
    ELSE a.score > b.score

\* One of the orders sort.Sort can leave: x goes before the first element
\* it is Less than.
InsertSorted(sorted, x) ==
    LET after == {i \in 1..Len(sorted) : Less(x, sorted[i])}
        at == IF after = {} THEN Len(sorted) + 1
              ELSE CHOOSE i \in after : \A j \in after : i <= j
    IN  SubSeq(sorted, 1, at - 1) \o <<x>> \o SubSeq(sorted, at, Len(sorted))

RECURSIVE OneSortedOrder(_)
OneSortedOrder(results) ==
    IF results = <<>> THEN <<>>
    ELSE InsertSorted(OneSortedOrder(SubSeq(results, 1, Len(results) - 1)),
                      results[Len(results)])

\* Less orders neither of the two before the other.
Tied(a, b) == ~Less(a, b) /\ ~Less(b, a)

\* Every order of the elements of s.
RECURSIVE Orders(_)
Orders(s) ==
    IF s = <<>> THEN {<<>>}
    ELSE UNION {{<<s[i]>> \o rest :
                    rest \in Orders(SubSeq(s, 1, i - 1)
                                       \o SubSeq(s, i + 1, Len(s)))} :
                i \in DOMAIN s}

\* The orders of a sorted sequence that differ in the places of tied
\* elements only.
RECURSIVE TiedOrders(_)
TiedOrders(sorted) ==
    LET ties == {i \in 1..(Len(sorted) - 1) : Tied(sorted[i], sorted[i + 1])}
    IN  IF ties = {} THEN {sorted}
        ELSE LET first == CHOOSE i \in ties : \A j \in ties : i <= j
                 last == CHOOSE k \in (first + 1)..Len(sorted) :
                            /\ \A i \in first..(k - 1) : i \in ties
                            /\ k \notin ties
             IN  {SubSeq(sorted, 1, first - 1) \o group \o rest :
                     group \in Orders(SubSeq(sorted, first, last)),
                     rest \in TiedOrders(SubSeq(sorted, last + 1, Len(sorted)))}

\* sort.Sort(&results) is not stable: the set of the orders it can leave,
\* every sorted order of results.
SortResults(results) == TiedOrders(OneSortedOrder(results))

\* resultSorter.Results
Results(results) ==
    [i \in 1..Len(results) |->
        [Name |-> results[i].sym.Name,
         ContainerName |-> results[i].sym.ContainerName,
         Kind |-> results[i].sym.Kind, URI |-> results[i].sym.URI]]

\* collectFromPkg over the symbols astPkgToSymbols gives for the package.
RECURSIVE CollectSymbols(_, _, _)
CollectSymbols(symbols, q, results) ==
    IF symbols = <<>> THEN results
    ELSE IF q.Filter = FilterExported /\ ~isExported(Head(symbols))
         THEN CollectSymbols(Tail(symbols), q, results)
    ELSE CollectSymbols(Tail(symbols), q, Collect(results, q, Head(symbols)))

collectFromPkg(pkg, q, results) == CollectSymbols(pkg.syms, q, results)

\* The walk function of handleSymbol once the context was found alive.
SymbolWalkFunc(pkg, q, limit, results) ==
    IF q.File # <<>> /\ ~(\E file \in pkg.files : PathEqual(file, q.File))
    THEN results
    ELSE IF q.Filter = FilterDir /\ ~PathEqual(pkg.path, q.Dir) THEN results
    ELSE IF Len(results) >= limit THEN results
    ELSE collectFromPkg(pkg, q, results)

\* The tail of handleSymbol once Search returned without error: the lists
\* it can answer with, one for every order the sort can leave.
RankAndTruncate(results, limit) ==
    {IF Len(sorted) > limit /\ limit > 0 THEN SubSeq(sorted, 1, limit)
     ELSE sorted : sorted \in SortResults(results)}

DefaultLimit == 50

\* handleWorkspaceSymbol up to the call of handleSymbol: the query and limit.
handleWorkspaceSymbol(params, rootImportPath) ==
    LET q0 == [ParseQuery(params.Query) EXCEPT !.Symbol = params.Symbol]
        q1 == IF q0.Filter = FilterDir
              THEN [q0 EXCEPT !.Dir = Join(rootImportPath, q0.Dir)] ELSE q0
        q2 == IF "id" \in DOMAIN q1.Symbol
              THEN [q1 EXCEPT !.Dir = SplitFirst(q1.Symbol["id"], <<"/", "-", "/">>),
                              !.Filter = FilterDir]
              ELSE q1
    IN  [q |-> q2,
         limit |-> IF params.Limit = 0 THEN DefaultLimit ELSE params.Limit]

(***************************************************************************)
(* The packages of the symbol search: import path, file names and the      *)
(* symbols astPkgToSymbols extracts, in declaration order.                 *)
(***************************************************************************)
SymPkg(path, name, files, syms) ==
    [path |-> path, name |-> name, files |-> files, syms |-> syms]

Digit(d) == Digits[d + 1]

\* A package declaring size functions S00, S01, ...
BigPkg(path, filename, size) ==
    SymPkg(path, path, {filename},
           [i \in 1..size |->
               toSym(<<"S", Digit((i - 1) \div 10), Digit((i - 1) % 10)>>,
                     path, path, <<>>, <<>>, "SKFunction", filename)])

SymPkgA ==
    SymPkg(<<"a">>, <<"a">>, {<<"/", "a", "/", "x", ".", "g", "o">>},
           <<toSym(<<"F", "o", "o">>, <<"a">>, <<"a">>, <<>>, <<>>, "SKFunction", <<"/", "a", "/", "x", ".", "g", "o">>),
             toSym(<<"f", "o", "o">>, <<"a">>, <<"a">>, <<>>, <<>>, "SKVariable", <<"/", "a", "/", "x", ".", "g", "o">>),
             toSym(<<"T">>, <<"a">>, <<"a">>, <<>>, <<>>, "SKClass", <<"/", "a", "/", "x", ".", "g", "o">>),
             toSym(<<"F", "o", "o">>, <<"a">>, <<"a">>, <<"T">>, <<"T">>, "SKMethod", <<"/", "a", "/", "x", ".", "g", "o">>),
             toSym(<<"B", "a", "r">>, <<"a">>, <<"a">>, <<"t">>, <<"t">>, "SKMethod", <<"/", "a", "/", "x", ".", "g", "o">>)>>)

SymPkgB ==
    SymPkg(<<"b">>, <<"b">>, {<<"/", "b", "/", "f", "o", "o", ".", "g", "o">>},
           <<toSym(<<"F", "o", "o">>, <<"b">>, <<"b">>, <<>>, <<>>, "SKFunction", <<"/", "b", "/", "f", "o", "o", ".", "g", "o">>),
             toSym(<<"B", "a", "r">>, <<"b">>, <<"b">>, <<>>, <<>>, "SKConstant", <<"/", "b", "/", "f", "o", "o", ".", "g", "o">>),
             toSym(<<"B", "a", "r">>, <<"b">>, <<"b">>, <<>>, <<>>, "SKVariable", <<"/", "b", "/", "f", "o", "o", ".", "g", "o">>)>>)

SymPkgC ==
    SymPkg(<<"v", "/", "a">>, <<"a">>, {<<"/", "v", "/", "a", "/", "x", ".", "g", "o">>},
           <<toSym(<<"F", "o", "o">>, <<"v", "/", "a">>, <<"a">>, <<>>, <<>>, "SKFunction", <<"/", "v", "/", "a", "/", "x", ".", "g", "o">>)>>)

SymPkgVendored ==
    SymPkg(<<"w", "/", "v", "e", "n", "d", "o", "r", "/", "a">>, <<"a">>, {<<"/", "w", "/", "v", "e", "n", "d", "o", "r", "/", "a", "/", "x", ".", "g", "o">>},
           <<toSym(<<"F", "o", "o">>, <<"w", "/", "v", "e", "n", "d", "o", "r", "/", "a">>, <<"a">>, <<>>, <<>>, "SKFunction",
                   <<"/", "w", "/", "v", "e", "n", "d", "o", "r", "/", "a", "/", "x", ".", "g", "o">>)>>)

SymPkgPool ==
    {SymPkgA, SymPkgB, SymPkgC, SymPkgVendored,
     BigPkg(<<"g">>, <<"/", "g", "/", "x", ".", "g", "o">>, BigPkgSize),
     BigPkg(<<"h">>, <<"/", "h", "/", "x", ".", "g", "o">>, BigPkgSize)}

\* Sequences of distinct packages, in the order Walk visits them.
SymCaches ==
    {c \in SeqsUpTo(SymPkgPool, MaxSymPkgs) :
        \A i, j \in 1..Len(c) : i # j => c[i] # c[j]}

\* params.Query of the requests.
RawQueries ==
    {<<>>, <<"f", "o", "o">>, <<"F", "o", "o">>, <<"t", ".", "f", "o", "o">>, <<"f", "u", "n", "c", " ", "f", "o", "o">>, <<"i", "s", ":", "e", "x", "p", "o", "r", "t", "e", "d">>,
     <<"d", "i", "r", ":", "a", " ", "f", "o", "o">>, <<"t", "y", "p", "e">>}

\* params.Symbol of the requests.
SymbolParams ==
    {NoSymbol, "name" :> <<"F", "o", "o">>, "id" :> <<"a", "/", "-", "/", "F", "o", "o">>}

RootImportPaths == {<<>>, <<"v">>}

(***************************************************************************)
(* sameObj as a pure function: Init draws three objects, SameObjEval       *)
(* applies sameObj to the pairs.                                           *)
(***************************************************************************)
SoIdle == [phase |-> "off"]
RcIdle == [phase |-> "off"]
ReqIdle ==
    /\ req = [handler |-> "off"]
    /\ run = [pc |-> "off"]
    /\ ctxErr = NoErr

SymIdle ==
    /\ sreq = [phase |-> "off"]
    /\ srun = [pc |-> "off"]

FnIdle == [phase |-> "off"]

ProjIdle == [phase |-> "off"]

SameObjInit ==
    /\ so \in [phase : {"input"}, x : Objects, y : Objects, z : Objects]
    /\ rc = RcIdle
    /\ ReqIdle
    /\ SymIdle
    /\ fn = FnIdle
    /\ proj = ProjIdle

SameObjEval ==
    /\ so.phase = "input"
    /\ so' = [phase |-> "done", x |-> so.x, y |-> so.y, z |-> so.z,
              xx |-> sameObj(so.x, so.x),
              xy |-> sameObj(so.x, so.y),
              yx |-> sameObj(so.y, so.x),
              yz |-> sameObj(so.y, so.z),
              xz |-> sameObj(so.x, so.z),
              ruleXY |-> SameObjRule(so.x, so.y),
              ruleYZ |-> SameObjRule(so.y, so.z)]
    /\ UNCHANGED <<rc, req, run, ctxErr, sreq, srun, fn, proj>>

SameObjNext == SameObjEval

SpecSameObj == SameObjInit /\ [][SameObjNext]_vars

\* C4: sameObj is reflexive and symmetric on all pairs, and transitive on the
\* triples in which neither match is decided by the exported
\* same-package-path-and-same-name rule.
SameObjEquivalence ==
    so.phase = "done" =>
        /\ so.xx
        /\ so.xy = so.yx
        /\ (so.xy /\ so.yz /\ so.ruleXY # "exported" /\ so.ruleYZ # "exported")
              => so.xz

\* A triple chained through the builtin rule and through the PkgName rule's
\* neighbours: two distinct matches, neither by the exported rule.
SameObjWitness ==
    /\ so.phase = "done"
    /\ so.x # so.y /\ so.y # so.z
    /\ so.xy /\ so.yz
    /\ so.ruleXY = "pkgname" /\ so.ruleYZ = "pkgname"
    /\ so.xz

(***************************************************************************)
(* refStreamAndCollect as a pure function: Init draws a list of found      *)
(* references and a limit, CollectEval applies the function.               *)
(***************************************************************************)
CollectInit ==
    /\ rc \in [phase : {"input"}, refs : SeqsUpTo(Idents, MaxRefs),
               limit : 0..MaxLimit]
    /\ so = SoIdle
    /\ ReqIdle
    /\ SymIdle
    /\ fn = FnIdle
    /\ proj = ProjIdle

CollectEval ==
    /\ rc.phase = "input"
    /\ rc' = [phase |-> "done", refs |-> rc.refs, limit |-> rc.limit,
              locs |-> refStreamAndCollect(rc.refs, rc.limit)]
    /\ UNCHANGED <<so, req, run, ctxErr, sreq, srun, fn, proj>>

CollectNext == CollectEval

SpecCollect == CollectInit /\ [][CollectNext]_vars

\* The locations of a list of references, and the first index of a key.
LocsOf(refs) == [i \in 1..Len(refs) |->
                    goRangeToLSPLocation(refs[i].pos, refs[i].name)]

FirstIndex(locs, loc) ==
    CHOOSE i \in 1..Len(locs) :
        /\ formatLocation(locs[i]) = formatLocation(loc)
        /\ \A j \in 1..(i - 1) : formatLocation(locs[j]) # formatLocation(loc)

\* The de-duplicated discovery-order list: every location with a URI, at the
\* first occurrence of its key.
RECURSIVE Dedup(_)
Dedup(locs) ==
    IF locs = <<>> THEN <<>>
    ELSE LET n == Len(locs)
             front == Dedup(SubSeq(locs, 1, n - 1))
             last == locs[n]
         IN  IF last.uri = ""
                \/ \E j \in 1..(n - 1) :
                      formatLocation(locs[j]) = formatLocation(last)
             THEN front
             ELSE Append(front, last)

\* C5: refStreamAndCollect returns no two locations with the same (URI, range)
\* key; the result is a subsequence of the input in discovery order, each
\* returned location standing for the first occurrence of its key; and
\* without a limit every located key of the input is returned.
CollectDedupInOrder ==
    rc.phase = "done" =>
        LET in == LocsOf(rc.refs)
            out == rc.locs
        IN  /\ \A j \in 1..Len(out) :
                  \E i \in 1..Len(in) : in[i] = out[j] /\ out[j].uri # ""
            /\ \A j, k \in 1..Len(out) :
                  j < k => FirstIndex(in, out[j]) < FirstIndex(in, out[k])
            /\ rc.limit = 0 =>
                  \A i \in 1..Len(in) :
                      in[i].uri # "" =>
                          \E j \in 1..Len(out) :
                              formatLocation(out[j]) = formatLocation(in[i])

\* A list with a repeated key between two different ones, collected with no
\* limit: the repeat is dropped and both keys are returned.
CollectDedupWitness ==
    /\ rc.phase = "done"
    /\ rc.limit = 0
    /\ Len(rc.refs) = 3
    /\ rc.refs[1] = rc.refs[2]
    /\ rc.refs[1].pos # NoPos
    /\ Len(rc.locs) = 2

\* C6: XLimit truncates the de-duplicated list: no limit drops nothing, and a
\* limit n > 0 returns the first n entries of the de-duplicated list.
CollectLimitAfterDedup ==
    rc.phase = "done" =>
        LET dd == Dedup(LocsOf(rc.refs))
        IN  IF rc.limit = 0 THEN rc.locs = dd
            ELSE rc.locs = SubSeq(dd, 1, Min(rc.limit, Len(dd)))

(***************************************************************************)
(* A references or definition request.  The request context may be         *)
(* canceled at any moment while the request is in flight; the walk of the  *)
(* package cache proceeds one package at a time.                           *)
(***************************************************************************)
Requests(handlers, cellsAt, cellsBefore, qobjs, caches, limits, decls) ==
    {[handler |-> h, character |-> c, doc |-> (c :> a) @@ ((c - 1) :> b),
      obj |-> q.obj, declPos |-> q.declPos, includeDeclaration |-> d,
      limit |-> l, cache |-> ca] :
        h \in handlers, c \in 1..MaxChar, a \in cellsAt, b \in cellsBefore,
        q \in qobjs, ca \in caches, l \in limits, d \in decls}

RunStart(r) ==
    [pc |-> "attempt", att |-> 1, chr |-> r.character, log |-> <<>>,
     widx |-> 0, refs |-> <<>>, scanned |-> {}, skipped |-> {},
     resp |-> Result(<<>>, NoErr), cancelSeen |-> FALSE, lateScan |-> FALSE]

ReqInit ==
    /\ req \in Requests({"references"}, {IdentCell}, SearchCells, QueryObjs,
                        Caches, 0..MaxLimit, BOOLEAN)
    /\ run = RunStart(req)
    /\ ctxErr = NoErr
    /\ so = SoIdle
    /\ rc = RcIdle
    /\ SymIdle
    /\ fn = FnIdle
    /\ proj = ProjIdle

ResolveInit ==
    /\ req \in Requests({"references", "definition"}, AllCells, AllCells,
                        {q \in QueryObjs : q.obj \in {ObjFp, ObjLen}},
                        {c \in Caches : \A i \in 1..Len(c) :
                                           c[i].path \in {"q", "builtin"}},
                        {0}, {TRUE})
    /\ run = RunStart(req)
    /\ ctxErr = NoErr
    /\ so = SoIdle
    /\ rc = RcIdle
    /\ SymIdle
    /\ fn = FnIdle
    /\ proj = ProjIdle

\* One call of doHandleTextDocumentReferences (up to the search) or of
\* doHandleXDefinition at the current character.
Attempt ==
    /\ run.pc = "attempt"
    /\ LET cell == req.doc[run.chr]
       IN  IF req.handler = "references"
           THEN LET pre == RefsResolve(cell, req.obj)
                IN  IF pre.done
                    THEN run' = AttemptReturn(run, pre.res)
                    ELSE run' = [run EXCEPT !.pc = "walk", !.widx = 1]
           ELSE run' = AttemptReturn(run,
                           doHandleXDefinition(cell, req.obj, req.declPos,
                                               req.cache))
    /\ UNCHANGED <<so, rc, req, ctxErr, sreq, srun, fn, proj>>

\* The walk function of findReferences on the next package of the cache.
WalkStep ==
    /\ run.pc = "walk"
    /\ run.widx <= Len(req.cache)
    /\ LET pkg == req.cache[run.widx]
           ferr == ctxErr
       IN  IF WalkStops(ferr)
           THEN run' = AttemptReturn([run EXCEPT !.cancelSeen = TRUE],
                                     Result(<<>>, ferr))
           ELSE IF SkipsPackage(pkg, DefPkgPath(req.obj)) \/ ~pkg.hasInfo
           THEN run' = [run EXCEPT !.widx = run.widx + 1,
                                   !.skipped = run.skipped \cup {run.widx}]
           ELSE run' = [run EXCEPT !.widx = run.widx + 1,
                                   !.scanned = run.scanned \cup {run.widx},
                                   !.lateScan = run.lateScan \/ run.cancelSeen,
                                   !.refs = run.refs \o ScanUses(pkg.uses, req.obj)]
    /\ UNCHANGED <<so, rc, req, ctxErr, sreq, srun, fn, proj>>

\* The walk visited every package: findReferences returns the identifiers.
WalkDone ==
    /\ run.pc = "walk"
    /\ run.widx > Len(req.cache)
    /\ run' = AttemptReturn(run,
                  Result(RefsFinish(run.refs, req.obj, req.declPos,
                                    req.includeDeclaration, req.limit), NoErr))
    /\ UNCHANGED <<so, rc, req, ctxErr, sreq, srun, fn, proj>>

\* The client cancels the request.
Cancel ==
    /\ run.pc \in {"attempt", "walk"}
    /\ ctxErr = NoErr
    /\ ctxErr' = ErrCanceled
    /\ UNCHANGED <<so, rc, req, run, sreq, srun, fn, proj>>

ReqNext == Attempt \/ WalkStep \/ WalkDone \/ Cancel

Spec == ReqInit /\ [][ReqNext]_vars

SpecResolve == ResolveInit /\ [][ReqNext]_vars

\* C1: both handlers retry at character-1 exactly when the first attempt
\* returned an error, at most once; the response is the first attempt's result
\* when it returned no error and otherwise the locations and error of the
\* second attempt.
RetryOnlyOnError ==
    /\ Len(run.log) <= 2
    /\ run.pc = "done" =>
          /\ Len(run.log) >= 1
          /\ run.log[1].chr = req.character
          /\ Len(run.log) = 2 <=> run.log[1].err # NoErr
          /\ Len(run.log) = 2 => run.log[2].chr = req.character - 1
          /\ run.resp = Result(run.log[Len(run.log)].locs,
                               run.log[Len(run.log)].err)

\* A references request whose first attempt failed and whose retry found
\* locations.
RetryWitness ==
    /\ run.pc = "done"
    /\ req.handler = "references"
    /\ Len(run.log) = 2
    /\ run.log[1].err = ErrInvalidNode
    /\ run.resp.err = NoErr
    /\ run.resp.locs # <<>>

\* The node at a position is one the handler does not reduce to an identifier.
NotIdentLike(handler, cell) ==
    \/ cell.tc = "InvalidNode"
    \/ /\ cell.tc = "ok"
       /\ cell.path = "ok"
       /\ IF handler = "references"
          THEN cell.node \notin {"Ident", "FuncDecl"}
          ELSE /\ cell.node \notin {"Ident", "TypeSpec", "SelectorExpr"}
               /\ ~(cell.node = "CallExpr"
                    /\ cell.fun \in {"Ident", "SelectorExpr"})

\* C2: when the node under the cursor is not identifier-like (here at the
\* requested character and at the retried one), the request completes with an
\* empty result and no error.
InvalidNodeEmptyNoError ==
    (/\ run.pc = "done"
     /\ NotIdentLike(req.handler, req.doc[req.character])
     /\ NotIdentLike(req.handler, req.doc[req.character - 1]))
        => run.resp = Result(<<>>, NoErr)

\* The condition under which the claim has a package scanned.
ScanCondition(pkg, obj) ==
    /\ pkg.hasInfo
    /\ \/ obj.pkg = Nil
       \/ pkg.path = obj.pkg
       \/ obj.pkg \in pkg.imports

\* C3: findReferences scans the Uses of a visited package if and only if the
\* package has type information and the queried object is a builtin, or the
\* package is the defining package, or it directly imports it; no identifier
\* of another package is among the references found.
ScanOnlyImporters ==
    /\ \A i \in run.scanned \cup run.skipped :
          i \in run.scanned <=> ScanCondition(req.cache[i], req.obj)
    /\ \A k \in 1..Len(run.refs) :
          \E i \in 1..Len(req.cache) :
              /\ ScanCondition(req.cache[i], req.obj)
              /\ \E u \in 1..Len(req.cache[i].uses) :
                    req.cache[i].uses[u].id = run.refs[k]

\* C7: a references request with IncludeDeclaration on an object declared in
\* a file returns the declaration's location, for every XLimit and every
\* number of uses.
DeclarationIncluded ==
    (/\ run.pc = "done"
     /\ req.handler = "references"
     /\ run.resp.err = NoErr
     /\ run.widx > 0
     /\ req.includeDeclaration
     /\ req.declPos # NoPos)
        => \E j \in 1..Len(run.resp.locs) :
              run.resp.locs[j] = goRangeToLSPLocation(req.declPos, req.obj.name)

\* C8: once a reference search observed the cancellation at a package
\* boundary no package is scanned any more, and the request returns the
\* context error and no locations.
CancelSurfaces ==
    /\ run.cancelSeen => ~run.lateScan
    /\ (run.pc = "done" /\ run.cancelSeen)
          => run.resp = Result(<<>>, ErrCanceled)

(***************************************************************************)
(* A workspace/symbol request.  The walk of the package cache calls the    *)
(* walk function of handleSymbol once per package; the request context     *)
(* may be canceled at any moment while the request is in flight.           *)
(***************************************************************************)
SymInit ==
    /\ sreq \in [phase : {"request"},
                params : [Query : RawQueries, Symbol : SymbolParams,
                          Limit : 0..MaxSymLimit],
                root : RootImportPaths, cache : SymCaches]
    /\ srun = [pc |-> "begin", q |-> ZeroQuery, limit |-> 0, widx |-> 0,
               results |-> <<>>, ranked |-> <<>>, cancelSeen |-> FALSE,
               resp |-> [syms |-> <<>>, err |-> NoErr]]
    /\ ctxErr = NoErr
    /\ so = SoIdle
    /\ rc = RcIdle
    /\ req = [handler |-> "off"]
    /\ run = [pc |-> "off"]
    /\ fn = FnIdle
    /\ proj = ProjIdle

\* handleWorkspaceSymbol parses the query, fixes the limit and calls
\* handleSymbol, which starts the walk.
SymBegin ==
    /\ srun.pc = "begin"
    /\ LET hs == handleWorkspaceSymbol(sreq.params, sreq.root)
       IN  srun' = [srun EXCEPT !.pc = "walk", !.q = hs.q, !.limit = hs.limit,
                                !.widx = 1]
    /\ UNCHANGED <<so, rc, req, run, ctxErr, sreq, fn, proj>>

\* The walk function of handleSymbol on the next package of the cache.
SymWalkStep ==
    /\ srun.pc = "walk"
    /\ srun.widx <= Len(sreq.cache)
    /\ LET ferr == ctxErr
       IN  IF WalkStops(ferr)
           THEN srun' = [srun EXCEPT !.pc = "done", !.cancelSeen = TRUE,
                                     !.resp = [syms |-> <<>>, err |-> ferr]]
           ELSE srun' = [srun EXCEPT
                            !.widx = srun.widx + 1,
                            !.results = SymbolWalkFunc(sreq.cache[srun.widx],
                                            srun.q, srun.limit, srun.results)]
    /\ UNCHANGED <<so, rc, req, run, ctxErr, sreq, fn, proj>>

\* The walk visited every package: handleSymbol sorts, truncates and answers.
SymWalkDone ==
    /\ srun.pc = "walk"
    /\ srun.widx > Len(sreq.cache)
    /\ \E ranked \in RankAndTruncate(srun.results, srun.limit) :
          srun' = [srun EXCEPT !.pc = "done", !.ranked = ranked,
                               !.resp = [syms |-> Results(ranked),
                                         err |-> NoErr]]
    /\ UNCHANGED <<so, rc, req, run, ctxErr, sreq, fn, proj>>

\* The client cancels the symbol request.
SymCancel ==
    /\ srun.pc \in {"begin", "walk"}
    /\ ctxErr = NoErr
    /\ ctxErr' = ErrCanceled
    /\ UNCHANGED <<so, rc, req, run, sreq, srun, fn, proj>>

SymNext == SymBegin \/ SymWalkStep \/ SymWalkDone \/ SymCancel

SpecSymbol == SymInit /\ [][SymNext]_vars

\* C9: when the walk of a workspace symbol search observes the cancellation
\* at a package boundary, the request answers with the symbols collected so
\* far, sorted and truncated, and with no error.
SymbolCancelPartial ==
    (srun.pc = "done" /\ srun.cancelSeen) =>
        \E ranked \in RankAndTruncate(srun.results, srun.limit) :
            srun.resp = [syms |-> Results(ranked), err |-> NoErr]

\* The order of the claim on two entries: a goes before b or ties with it.
RankedBefore(a, b) ==
    \/ a.score > b.score
    \/ /\ a.score = b.score
       /\ \/ StrLess(a.sym.ContainerName, b.sym.ContainerName)
          \/ /\ a.sym.ContainerName = b.sym.ContainerName
             /\ \/ StrLess(a.sym.Name, b.sym.Name)
                \/ /\ a.sym.Name = b.sym.Name
                   /\ ~StrLess(b.sym.URI, a.sym.URI)

\* C10: the list a workspace symbol search returns is ordered by score
\* descending, then container name, name and URI ascending; every entry has
\* a strictly positive score for the query; and it has at most limit
\* entries, a request limit of 0 standing for 50.
SymbolResultRanked ==
    (srun.pc = "done" /\ srun.resp.err = NoErr) =>
        LET out == srun.ranked
            q == handleWorkspaceSymbol(sreq.params, sreq.root).q
        IN  /\ srun.resp.syms = Results(out)
            /\ \A i \in 1..Len(out) :
                  out[i].score = score(q, out[i].sym) /\ out[i].score > 0
            /\ \A i, j \in 1..Len(out) : i < j => RankedBefore(out[i], out[j])
            /\ Len(out) <= (IF sreq.params.Limit = 0 THEN 50
                            ELSE sreq.params.Limit)

\* A search without a request limit that collected more than fifty symbols
\* and answered with fifty.
SymbolResultWitness ==
    /\ srun.pc = "done"
    /\ srun.resp.err = NoErr
    /\ sreq.params.Limit = 0
    /\ Len(srun.results) > 50
    /\ Len(srun.resp.syms) = 50

(***************************************************************************)
(* Initial state common to the evaluations of pure functions: everything   *)
(* but fn is idle.                                                         *)
(***************************************************************************)
OthersIdle ==
    /\ so = SoIdle
    /\ rc = RcIdle
    /\ ReqIdle
    /\ SymIdle
    /\ proj = ProjIdle

(***************************************************************************)
(* score as a pure function: Init draws a query and a candidate symbol,    *)
(* ScoreEval applies score.                                                *)
(***************************************************************************)
ScoreTokens == {<<"f", "o", "o">>, <<"F", "o", "o">>, <<"t">>, <<"x", ".", "g">>, <<"v", "e", "n", "d", "o", "r">>}

ScoreQueries ==
    [Kind : {NoKind, "SKFunction"}, Filter : {NoFilter},
     File : {<<>>, <<"/", "a", "/", "x", ".", "g", "o">>}, Dir : {<<>>},
     Tokens : SeqsUpTo(ScoreTokens, MaxTokens), Symbol : SymbolParams]

ScoreSymbols ==
    UNION {{p.syms[i] : i \in 1..Len(p.syms)} :
              p \in {SymPkgA, SymPkgB, SymPkgC, SymPkgVendored}}
    \cup {toSym(<<"f", "o", "o">>, <<"v", "e", "n", "d", "o", "r", "/", "a">>, <<"a">>, <<"f", "o", "o">>, <<"f", "o", "o">>, "SKMethod",
                <<"v", "e", "n", "d", "o", "r", "/", "a", "/", "f", "o", "o", ".", "g", "o">>)}

ScoreInit ==
    /\ fn \in [phase : {"input"}, name : {"score"}, q : ScoreQueries,
               s : ScoreSymbols]
    /\ OthersIdle

ScoreEval ==
    /\ fn.phase = "input"
    /\ fn.name = "score"
    /\ fn' = [phase |-> "done", name |-> "score", q |-> fn.q, s |-> fn.s,
              out |-> score(fn.q, fn.s)]
    /\ UNCHANGED <<so, rc, req, run, ctxErr, sreq, srun, proj>>

ScoreNext == ScoreEval

SpecScore == ScoreInit /\ [][ScoreNext]_vars

\* The sum of f over the indexes 1..n.
RECURSIVE SumOver(_, _)
SumOver(n, f) == IF n = 0 THEN 0 ELSE f[n] + SumOver(n - 1, f)

\* The table of the claim, written on the symbol's lower-cased name and
\* container and on its filename.
ScoreTable(q, s) ==
    LET name == ToLower(s.Name)
        container == ToLower(s.ContainerName)
        filename == UriToPath(s.URI)
        n == Len(q.Tokens)
        points == [i \in 1..n |->
            LET tok == ToLower(q.Tokens[i])
            IN  (IF HasPrefix(container, tok) THEN 2 ELSE 0)
                + (IF HasPrefix(name, tok) THEN 3 ELSE 0)
                + (IF Len(tok) >= 3 /\ Contains(filename, tok) THEN 1 ELSE 0)
                + (IF Len(tok) >= 3 /\ HasPrefix(Base(filename), tok)
                   THEN 2 ELSE 0)
                + (IF tok = name /\ i = n THEN 50 ELSE 0)
                + (IF tok = name /\ i # n THEN 5 ELSE 0)
                + (IF tok = container THEN 3 ELSE 0)]
        sum == SumOver(n, points)
        underVendor == \E k \in 1..(Len(filename) - 6) :
                          /\ SubSeq(filename, k, k + 6) = <<"v", "e", "n", "d", "o", "r", "/">>
                          /\ (k = 1 \/ filename[k - 1] = "/")
    IN  IF q.Kind # NoKind /\ q.Kind # s.Kind THEN 0
        ELSE IF q.Symbol # NoSymbol /\ ~DescContains(s.desc, q.Symbol) THEN 0 - 1
        ELSE IF q.File # <<>> /\ q.File # filename THEN 0
        ELSE IF n = 0 THEN 2
        ELSE sum + (IF sum > 0 /\ ~underVendor THEN 5 ELSE 0)
                 + (IF sum > 0 /\ IsExportedName(s.Name) THEN 1 ELSE 0)

\* C11: for every query and every candidate symbol with a file URI, score
\* gives 0 on a kind mismatch, -1 on a descriptor mismatch, 0 on a file
\* mismatch, 2 without tokens, and otherwise the per-token sum of the table
\* plus 5 outside vendor/ and plus 1 for an exported name when positive.
ScoreFollowsTable ==
    (fn.phase = "done" /\ fn.name = "score" /\ IsURI(fn.s.URI))
        => fn.out = ScoreTable(fn.q, fn.s)

\* A two-token query whose first token is the container and whose last
\* token is the name of an exported method outside vendor/: 2+3 for the
\* container, 3+50 for the name, 5 and 1 for the boosts.
ScoreWitness ==
    /\ fn.phase = "done"
    /\ fn.name = "score"
    /\ fn.q.Tokens = <<<<"t">>, <<"F", "o", "o">>>>
    /\ fn.s.Name = <<"F", "o", "o">>
    /\ fn.s.ContainerName = <<"T">>
    /\ fn.out = 64

(***************************************************************************)
(* Query.String, and the round trip through ParseQuery as a pure function  *)
(* of the raw query string.                                                *)
(***************************************************************************)
RECURSIVE TrimLeft(_)
TrimLeft(s) == IF s # <<>> /\ Head(s) = " " THEN TrimLeft(Tail(s)) ELSE s

RECURSIVE TrimRight(_)
TrimRight(s) ==
    IF s # <<>> /\ s[Len(s)] = " " THEN TrimRight(SubSeq(s, 1, Len(s) - 1))
    ELSE s

\* strings.TrimSpace
TrimSpace(s) == TrimRight(TrimLeft(s))

queryJoin(s, e) == TrimSpace(s \o <<" ">> \o e)

\* The text of a FilterType under %s.
FilterText(filter) ==
    IF filter = FilterDir THEN <<"d", "i", "r">>
    ELSE IF filter = FilterExported THEN <<"e", "x", "p", "o", "r", "t", "e", "d">>
    ELSE <<>>

RECURSIVE JoinTokens(_, _)
JoinTokens(s, tokens) ==
    IF tokens = <<>> THEN s
    ELSE JoinTokens(queryJoin(s, Head(tokens)), Tail(tokens))

\* Query.String.  Every kind has one keyword, so the order in which the
\* keywords map is ranged over does not show.
QueryString(q) ==
    LET s1 == IF q.Filter = FilterExported
              THEN queryJoin(<<>>, <<"i", "s", ":", "e", "x", "p", "o", "r", "t", "e", "d">>)
              ELSE IF q.Filter = FilterDir
              THEN queryJoin(<<>>, FilterText(q.Filter) \o <<":">> \o q.Dir)
              ELSE <<>>
        s2 == IF q.Kind # NoKind
              THEN queryJoin(s1, CHOOSE kwd \in DOMAIN keywords :
                                     keywords[kwd] = q.Kind)
              ELSE s1
    IN  JoinTokens(s2, q.Tokens)

\* The fields raw query strings are made of.
RawFields ==
    {<<"f", "o", "o">>, <<"F", "o", "o">>, <<"a", ".", "b">>, <<"f", "u", "n", "c">>, <<"t", "y", "p", "e", ".", "t">>, <<"d", "i", "r", ":", "a">>,
     <<"d", "i", "r", ":">>, <<"i", "s", ":", "e", "x", "p", "o", "r", "t", "e", "d">>, <<"x", ".", "i", "s", ":", "e", "x", "p", "o", "r", "t", "e", "d">>, <<"x", "/", "d", "i", "r", ":", "a">>, <<>>}

RECURSIVE JoinFields(_)
JoinFields(fields) ==
    IF fields = <<>> THEN <<>>
    ELSE IF Len(fields) = 1 THEN fields[1]
    ELSE fields[1] \o <<" ">> \o JoinFields(Tail(fields))

RawQueryStrings == {JoinFields(f) : f \in SeqsUpTo(RawFields, MaxFields)}

QueryInit ==
    /\ fn \in [phase : {"input"}, name : {"query"}, s : RawQueryStrings]
    /\ OthersIdle

QueryEval ==
    /\ fn.phase = "input"
    /\ fn.name = "query"
    /\ LET q == ParseQuery(fn.s)
       IN  fn' = [phase |-> "done", name |-> "query", s |-> fn.s, q |-> q,
                  str |-> QueryString(q), back |-> ParseQuery(QueryString(q))]
    /\ UNCHANGED <<so, rc, req, run, ctxErr, sreq, srun, proj>>

QueryNext == QueryEval

SpecQuery == QueryInit /\ [][QueryNext]_vars

\* C12: for every query string s with q = ParseQuery(s), parsing q.String()
\* gives the Filter, Kind and Dir of q and the Tokens of q in their order.
QueryRoundTrip ==
    (fn.phase = "done" /\ fn.name = "query") =>
        /\ fn.back.Filter = fn.q.Filter
        /\ fn.back.Kind = fn.q.Kind
        /\ fn.back.Dir = fn.q.Dir
        /\ fn.back.Tokens = fn.q.Tokens

(***************************************************************************)
(* Implementation search.  A named type has an identity, a printed form,   *)
(* a declaration position and its methods: for an interface the methods    *)
(* it requires, for a concrete type the methods with a value receiver      *)
(* (val) and those with a pointer receiver (ptr).  A method is its name    *)
(* and the type that declares it, which for a promoted method is the       *)
(* embedded type.                                                          *)
(***************************************************************************)
Method(name, owner) == [name |-> name, owner |-> owner]

Interface(id, name, methods) ==
    [form |-> "named", id |-> id, name |-> name, iface |-> TRUE,
     val |-> {Method(m, id) : m \in methods}, ptr |-> {}]

Concrete(id, name, val, ptr) ==
    [form |-> "named", id |-> id, name |-> name, iface |-> FALSE,
     val |-> val, ptr |-> ptr]

\* types.NewPointer
NewPointer(t) == [form |-> "pointer", elem |-> t]

\* The built-in error interface.
ErrorType == Interface("error", <<"e", "r", "r", "o", "r">>, {"Error"})

NamedPool ==
    {Interface("Any", <<"a", ".", "A", "n", "y">>, {}),
     Interface("IM", <<"a", ".", "I", "M">>, {"M"}),
     Interface("IMN", <<"a", ".", "I", "M", "N">>, {"M", "N"}),
     Interface("JM", <<"b", ".", "J", "M">>, {"M"}),
     Concrete("A", <<"a", ".", "A">>, {Method("M", "A")}, {}),
     Concrete("B", <<"a", ".", "B">>, {}, {Method("M", "B")}),
     Concrete("C", <<"b", ".", "C">>, {Method("M", "C")}, {Method("N", "C")}),
     Concrete("D", <<"b", ".", "D">>, {}, {}),
     Concrete("E", <<"b", ".", "E">>, {Method("M", "A")}, {}),
     Concrete("Err", <<"b", ".", "E", "r", "r">>, {Method("Error", "Err")}, {})}

\* types.Type.String
RECURSIVE TypeString(_)
TypeString(t) ==
    IF t.form = "pointer" THEN <<"*">> \o TypeString(t.elem) ELSE t.name

isInterface(t) == t.form = "named" /\ t.iface

\* The method set of a type: an interface's methods, a concrete named
\* type's value-receiver methods, all the methods of a concrete named type
\* for a pointer to it, and nothing for any other pointer.
MethodSet(t) ==
    IF t.form = "named" THEN t.val
    ELSE IF t.elem.form = "named" /\ ~t.elem.iface
         THEN t.elem.val \cup t.elem.ptr
    ELSE {}

MethodNames(t) == {m.name : m \in MethodSet(t)}

\* types.Identical: named types are identical when they are the same type.
Identical(t, u) == t = u

\* types.AssignableTo for a target that is a named type: the types are
\* identical, or the target is an interface the value implements.
AssignableTo(v, t) ==
    \/ Identical(v, t)
    \/ isInterface(t) /\ MethodNames(t) \subseteq MethodNames(v)

\* source.Deref
Deref(t) == IF t.form = "pointer" THEN t.elem ELSE t

\* The body of the loop over allNamed without the test that T and U differ.
BucketOfNoIdentical(T, U) ==
    IF isInterface(T)
    THEN IF MethodSet(T) = {} THEN {}
         ELSE IF isInterface(U)
         THEN IF MethodSet(U) = {} THEN {}
              ELSE (IF AssignableTo(U, T) THEN {<<"to", U>>} ELSE {})
                   \cup (IF AssignableTo(T, U) THEN {<<"from", U>>} ELSE {})
         ELSE IF AssignableTo(U, T) THEN {<<"to", U>>}
         ELSE IF AssignableTo(NewPointer(U), T) THEN {<<"to", NewPointer(U)>>}
         ELSE {}
    ELSE IF isInterface(U)
    THEN IF MethodSet(U) = {} THEN {}
         ELSE IF AssignableTo(T, U) THEN {<<"from", U>>}
         ELSE IF AssignableTo(NewPointer(T), U) THEN {<<"fromPtr", U>>}
         ELSE {}
    ELSE {}

\* The body of the loop over allNamed without the tests for an empty
\* interface.
BucketOfNoEmptyTest(T, U) ==
    IF isInterface(T)
    THEN IF isInterface(U)
         THEN IF ~Identical(T, U)
              THEN (IF AssignableTo(U, T) THEN {<<"to", U>>} ELSE {})
                   \cup (IF AssignableTo(T, U) THEN {<<"from", U>>} ELSE {})
              ELSE {}
         ELSE IF AssignableTo(U, T) THEN {<<"to", U>>}
         ELSE IF AssignableTo(NewPointer(U), T) THEN {<<"to", NewPointer(U)>>}
         ELSE {}
    ELSE IF isInterface(U)
    THEN IF AssignableTo(T, U) THEN {<<"from", U>>}
         ELSE IF AssignableTo(NewPointer(T), U) THEN {<<"fromPtr", U>>}
         ELSE {}
    ELSE {}

\* The body of the loop of implements over allNamed: the bucket entries one
\* candidate U adds for the selected type T.
BucketOf(T, U) ==
    IF isInterface(T)
    THEN IF MethodSet(T) = {} THEN {}
         ELSE IF isInterface(U)
         THEN IF MethodSet(U) = {} THEN {}
              ELSE IF ~Identical(T, U)
              THEN (IF AssignableTo(U, T) THEN {<<"to", U>>} ELSE {})
                   \cup (IF AssignableTo(T, U) THEN {<<"from", U>>} ELSE {})
              ELSE {}
         ELSE IF AssignableTo(U, T) THEN {<<"to", U>>}
         ELSE IF AssignableTo(NewPointer(U), T) THEN {<<"to", NewPointer(U)>>}
         ELSE {}
    ELSE IF isInterface(U)
    THEN IF MethodSet(U) = {} THEN {}
         ELSE IF AssignableTo(T, U) THEN {<<"from", U>>}
         ELSE IF AssignableTo(NewPointer(T), U) THEN {<<"fromPtr", U>>}
         ELSE {}
    ELSE {}

\* A bucket after sort.Sort(typesByString(...)): the printed forms of the
\* types of one bucket are distinct.
RECURSIVE SortTypes(_)
SortTypes(types) ==
    IF types = {} THEN <<>>
    ELSE LET first == CHOOSE t \in types :
                        \A u \in types \ {t} :
                            StrLess(TypeString(t), TypeString(u))
         IN  <<first>> \o SortTypes(types \ {first})

Bucket(entries, tag) == SortTypes({e[2] : e \in {x \in entries : x[1] = tag}})

\* toLocation of implements: <<>> stands for nil, otherwise the object the
\* location points at.
ToLocationObj(t, method) ==
    IF method = Nil
    THEN IF Deref(t).form = "named" THEN <<[kind |-> "type", id |-> Deref(t).id]>>
         ELSE <<>>
    ELSE IF \E m \in MethodSet(t) : m.name = method
         THEN <<[kind |-> "method",
                 id |-> (CHOOSE m \in MethodSet(t) : m.name = method).owner,
                 name |-> method]>>
    ELSE <<>>

\* The three loops that build locs, over the bucket entries still to be
\* emitted; each entry is the type with the tag and the Ptr its loop sets.
RECURSIVE EmitLocs(_, _, _, _)
EmitLocs(entries, method, seen, locs) ==
    IF entries = <<>> THEN locs
    ELSE LET e == Head(entries)
             obj == ToLocationObj(e.t, method)
         IN  IF obj = <<>> \/ (method # Nil /\ obj[1] \in seen)
             THEN EmitLocs(Tail(entries), method, seen, locs)
             ELSE EmitLocs(Tail(entries), method,
                           IF method # Nil THEN seen \cup {obj[1]} ELSE seen,
                           Append(locs, [obj |-> obj[1], Type |-> e.tag,
                                         Ptr |-> e.ptr, Method |-> method # Nil,
                                         from |-> e]))

Tagged(bucket, name, tag, ptr) ==
    [i \in 1..Len(bucket) |->
        [t |-> bucket[i], bucket |-> name, tag |-> tag, ptr |-> ptr]]

ErrNotMethod == "this function is not a method"
ErrNotType == "not a type, method, or value"

\* implements.  sel tells what path[0] is under the action: a method
\* (with its receiver type), a function without receiver, an expression or
\* type with type T, or something without a type.
implements(sel, named) ==
    LET method == IF sel.what = "method" THEN sel.method ELSE Nil
        T == sel.T
        allNamed == named \cup {ErrorType}
        entries == UNION {BucketOf(T, U) : U \in allNamed}
        to == Bucket(entries, "to")
        from == Bucket(entries, "from")
        fromPtr == Bucket(entries, "fromPtr")
        none == [to |-> <<>>, from |-> <<>>, fromPtr |-> <<>>, locs |-> <<>>]
    IN  IF sel.action = "actionExpr" /\ sel.what = "func"
        THEN none @@ [err |-> ErrNotMethod]
        ELSE IF sel.action \notin {"actionExpr", "actionType"}
                \/ sel.what \in {"func", "untyped"}
        THEN none @@ [err |-> ErrNotType]
        ELSE [to |-> to, from |-> from, fromPtr |-> fromPtr,
              locs |-> EmitLocs(Tagged(to, "to", "to", FALSE)
                                \o Tagged(from, "from", "from", FALSE)
                                \o Tagged(fromPtr, "fromPtr", "from", TRUE),
                                method, {}, <<>>),
              err |-> NoErr]

\* handleTextDocumentImplementation
handleTextDocumentImplementation(tc, sel, named) ==
    LET none == [to |-> <<>>, from |-> <<>>, fromPtr |-> <<>>, locs |-> <<>>]
    IN  IF tc = "InvalidNode" THEN none @@ [err |-> NoErr]
        ELSE IF tc # "ok" THEN none @@ [err |-> ErrTypeCheck]
        ELSE implements(sel, named)

\* The types a selection can have: the named types and pointers to them.
SelectableTypes ==
    NamedPool \cup {ErrorType} \cup {NewPointer(t) : t \in NamedPool}

NoType == [form |-> "none"]

\* What findInterestingNode and the type information give for the cursor.
Selections ==
    {[action |-> a, what |-> "type", T |-> t, method |-> Nil] :
        a \in {"actionExpr", "actionType", "actionUnknown"},
        t \in SelectableTypes}
    \cup {[action |-> "actionExpr", what |-> "method", T |-> t,
           method |-> m.name] :
            t \in SelectableTypes, m \in UNION {MethodSet(u) : u \in SelectableTypes}}
    \cup {[action |-> a, what |-> w, T |-> NoType, method |-> Nil] :
            a \in {"actionExpr", "actionType"}, w \in {"func", "untyped"}}

ImplSelections ==
    {s \in Selections :
        s.what = "method" => \E m \in MethodSet(s.T) : m.name = s.method}

ImplInit ==
    /\ fn \in [phase : {"input"}, name : {"implements"},
               tc : {"ok", "InvalidNode", "Error"}, sel : ImplSelections,
               named : {n \in SUBSET NamedPool : Cardinality(n) <= MaxNamed}]
    /\ OthersIdle

ImplEval ==
    /\ fn.phase = "input"
    /\ fn.name = "implements"
    /\ fn' = [phase |-> "done", name |-> "implements", tc |-> fn.tc,
              sel |-> fn.sel, named |-> fn.named,
              out |-> handleTextDocumentImplementation(fn.tc, fn.sel, fn.named)]
    /\ UNCHANGED <<so, rc, req, run, ctxErr, sreq, srun, proj>>

ImplNext == ImplEval

SpecImpl == ImplInit /\ [][ImplNext]_vars

ImplRan ==
    /\ fn.phase = "done"
    /\ fn.name = "implements"
    /\ fn.tc = "ok"
    /\ fn.out.err = NoErr
    /\ fn.sel.T # NoType

InSeq(x, seq) == \E i \in 1..Len(seq) : seq[i] = x

NonEmptyInterface(t) == isInterface(t) /\ MethodSet(t) # {}

\* C13: for the queried type T and every candidate named type U the buckets
\* follow the case table: two different non-empty interfaces give U in to
\* iff U is assignable to T and U in from iff T is assignable to U; a
\* non-empty interface T and a concrete U give U in to if U is assignable,
\* else *U in to if *U is assignable, never both; a concrete T and a
\* non-empty interface U give U in from if T is assignable, else U in fromPtr
\* if *T is assignable, never both; in every other case U is in no bucket.
ImplBucketTable ==
    ImplRan =>
        LET T == fn.sel.T
            to == fn.out.to
            from == fn.out.from
            fromPtr == fn.out.fromPtr
        IN  \A U \in fn.named \cup {ErrorType} :
              LET pU == NewPointer(U)
              IN  IF NonEmptyInterface(T) /\ NonEmptyInterface(U) /\ T # U
                  THEN /\ InSeq(U, to) <=> AssignableTo(U, T)
                       /\ InSeq(U, from) <=> AssignableTo(T, U)
                       /\ ~InSeq(pU, to) /\ ~InSeq(U, fromPtr)
                  ELSE IF NonEmptyInterface(T) /\ ~isInterface(U)
                  THEN /\ InSeq(U, to) <=> AssignableTo(U, T)
                       /\ InSeq(pU, to) <=>
                              (~AssignableTo(U, T) /\ AssignableTo(pU, T))
                       /\ ~InSeq(U, from) /\ ~InSeq(U, fromPtr)
                  ELSE IF ~isInterface(T) /\ NonEmptyInterface(U)
                  THEN /\ InSeq(U, from) <=> AssignableTo(T, U)
                       /\ InSeq(U, fromPtr) <=>
                              (~AssignableTo(T, U)
                               /\ AssignableTo(NewPointer(T), U))
                       /\ ~InSeq(U, to) /\ ~InSeq(pU, to)
                  ELSE /\ ~InSeq(U, to) /\ ~InSeq(pU, to)
                       /\ ~InSeq(U, from) /\ ~InSeq(U, fromPtr)

\* The queried interface is itself among the cached types, next to a type
\* that implements it only through its pointer and an interface it is
\* assignable to.
ImplBucketWitness ==
    /\ ImplRan
    /\ fn.sel.T \in fn.named
    /\ NonEmptyInterface(fn.sel.T)
    /\ \E i \in 1..Len(fn.out.to) : fn.out.to[i].form = "pointer"
    /\ Len(fn.out.from) > 0
    /\ ~InSeq(fn.sel.T, fn.out.to) /\ ~InSeq(fn.sel.T, fn.out.from)

\* C14: when the queried type is an interface with an empty method set,
\* the implementation search returns no location and no error, whatever
\* named types the cached packages define.
ImplEmptyInterface ==
    (/\ fn.phase = "done"
     /\ fn.name = "implements"
     /\ fn.tc = "ok"
     /\ fn.sel.action \in {"actionExpr", "actionType"}
     /\ fn.sel.what = "type"
     /\ isInterface(fn.sel.T)
     /\ MethodSet(fn.sel.T) = {})
        => fn.out.locs = <<>> /\ fn.out.err = NoErr

\* The empty interface queried over a cache that defines concrete types
\* and non-empty interfaces.
ImplEmptyInterfaceWitness ==
    /\ fn.phase = "done"
    /\ fn.name = "implements"
    /\ fn.tc = "ok"
    /\ fn.sel.action = "actionType"
    /\ isInterface(fn.sel.T)
    /\ MethodSet(fn.sel.T) = {}
    /\ \E U \in fn.named : ~isInterface(U)
    /\ \E U \in fn.named : NonEmptyInterface(U)
    /\ fn.out.locs = <<>>
    /\ fn.out.err = NoErr

\* The bucket and the place in it that a location was recorded from.
BucketRank(name) == IF name = "to" THEN 1 ELSE IF name = "from" THEN 2 ELSE 3

\* C15: a location recorded through the pointer form (a *U entry of the to
\* bucket or an entry of the fromPtr bucket) carries the ptr flag and no
\* other location does; the locations come as the to bucket, then from,
\* then fromPtr, each in the order of the printed forms of the types.
ImplPtrFlag ==
    ImplRan =>
        LET locs == fn.out.locs
        IN  /\ \A i \in 1..Len(locs) :
                  locs[i].Ptr <=> (locs[i].from.bucket = "fromPtr"
                                   \/ (locs[i].from.bucket = "to"
                                       /\ locs[i].from.t.form = "pointer"))
            /\ \A i, j \in 1..Len(locs) :
                  i < j =>
                      \/ BucketRank(locs[i].from.bucket)
                            < BucketRank(locs[j].from.bucket)
                      \/ /\ locs[i].from.bucket = locs[j].from.bucket
                         /\ StrLess(TypeString(locs[i].from.t),
                                    TypeString(locs[j].from.t))

(***************************************************************************)
(* handleHover.  The hover text itself is not modelled: a hover is the     *)
(* identifier or literal it describes.  hov tells what hoverIdent finds    *)
(* when FindIdentObject gives nil (a type, the identifier's ast.Object, a  *)
(* package statement or nothing), whether FindComments fails, and what     *)
(* surrounds a basic literal.                                              *)
(***************************************************************************)
ErrHoverNotFound == "type/object not found"
ErrComments == "FindComments error"

HoverResult(res, lookup) == [res |-> res, lookup |-> lookup]

hoverIdent(cell, obj, declPos, hov, cache) ==
    IF ~cell.hasObj /\ hov.noObj # "type"
    THEN IF hov.noObj = "astObj" THEN Result(<<"ident">>, NoErr)
         ELSE IF hov.noObj = "pkgStmt" THEN Result(<<"package">>, NoErr)
         ELSE Result(<<>>, ErrHoverNotFound)
    ELSE LET isBuiltIn == cell.hasObj /\ declPos = NoPos
             bpkg == GetFromPkgPath(cache, BuiltinPkg)
         IN  IF isBuiltIn /\ bpkg = <<>> THEN Result(<<>>, NoErr)
             ELSE IF isBuiltIn /\ FindObject(bpkg[1], obj) = <<>>
                  THEN Result(<<>>, NoErr)
             ELSE IF hov.commentsErr THEN Result(<<>>, ErrComments)
             ELSE Result(<<IF cell.hasObj THEN "object" ELSE "type">>, NoErr)

hoverCallExpr(cell, obj, declPos, hov, cache) ==
    IF cell.fun \in {"Ident", "SelectorExpr"}
    THEN HoverResult(hoverIdent(cell, obj, declPos, hov, cache), TRUE)
    ELSE HoverResult(Result(<<>>, ErrInvalidNode), FALSE)

hoverBasicLit(hov) ==
    IF hov.lit = "import" THEN Result(<<"package">>, NoErr)
    ELSE Result(<<>>, NoErr)

handleHover(cell, obj, declPos, hov, cache) ==
    IF cell.tc \in {"InvalidNode", "NoGo"}
    THEN HoverResult(Result(<<>>, NoErr), FALSE)
    ELSE IF cell.tc # "ok"
    THEN HoverResult(Result(<<>>, TypeCheckError(cell)), FALSE)
    ELSE IF cell.path # "ok" THEN HoverResult(Result(<<>>, ErrNoNode), FALSE)
    ELSE IF cell.node \in {"Ident", "TypeSpec", "SelectorExpr"}
    THEN HoverResult(hoverIdent(cell, obj, declPos, hov, cache), TRUE)
    ELSE IF cell.node = "BasicLit" THEN HoverResult(hoverBasicLit(hov), FALSE)
    ELSE IF cell.node = "CallExpr"
    THEN hoverCallExpr(cell, obj, declPos, hov, cache)
    ELSE HoverResult(Result(<<>>, NoErr), FALSE)

HoverInputs ==
    [noObj : {"type", "astObj", "pkgStmt", "none"}, commentsErr : BOOLEAN,
     lit : {"alone", "import", "other"}]

HoverInit ==
    /\ fn \in [phase : {"input"}, name : {"hover"}, cell : AllCells,
               q : {x \in QueryObjs : x.obj \in {ObjFp, ObjLen}},
               hov : HoverInputs,
               cache : {c \in Caches : \A i \in 1..Len(c) :
                                          c[i].path \in {"q", "builtin"}}]
    /\ OthersIdle

HoverEval ==
    /\ fn.phase = "input"
    /\ fn.name = "hover"
    /\ fn' = [phase |-> "done", name |-> "hover", cell |-> fn.cell,
              q |-> fn.q, hov |-> fn.hov, cache |-> fn.cache,
              out |-> handleHover(fn.cell, fn.q.obj, fn.q.declPos, fn.hov,
                                  fn.cache)]
    /\ UNCHANGED <<so, rc, req, run, ctxErr, sreq, srun, proj>>

HoverNext == HoverEval

SpecHover == HoverInit /\ [][HoverNext]_vars

HoverDone == fn.phase = "done" /\ fn.name = "hover"

\* C16: when typeCheck fails with NoGoError, which it does at every position
\* of the document, hover and definition both answer with an empty result
\* and no error.
NoGoSuppressed ==
    /\ (HoverDone /\ fn.cell.tc = "NoGo") => fn.out.res = Result(<<>>, NoErr)
    /\ (/\ run.pc = "done"
        /\ req.handler = "definition"
        /\ req.doc[req.character].tc = "NoGo"
        /\ req.doc[req.character - 1].tc = "NoGo")
           => run.resp = Result(<<>>, NoErr)

\* C17: for definition and references, a first attempt that ends in
\* InvalidNode, raised by typeCheck or by the node-kind switch of the
\* handler, is followed by exactly one retry at character-1.
InvalidNodeRetried ==
    (/\ run.pc = "done"
     /\ \/ req.doc[req.character].tc = "InvalidNode"
        \/ run.log[1].err = ErrInvalidNode)
        => /\ Len(run.log) = 2
           /\ run.log[2].chr = req.character - 1

\* The node kinds of the reduction table of the claim.
InReduceTable(cell) ==
    /\ cell.tc = "ok"
    /\ cell.path = "ok"
    /\ \/ cell.node \in {"Ident", "SelectorExpr", "TypeSpec", "FuncDecl"}
       \/ /\ cell.node = "CallExpr"
          /\ cell.fun \in {"Ident", "SelectorExpr", "CallExpr"}

\* C18: definition, references and hover reduce a CallExpr to its Fun (through
\* nested calls), a SelectorExpr to its Sel, a TypeSpec and a FuncDecl to
\* their Name and keep an identifier, so on each of these nodes each handler
\* goes on to the object lookup: the first attempt of definition and
\* references does not end in InvalidNodeError, and hover calls hoverIdent.
ReduceTableUniform ==
    /\ (HoverDone /\ InReduceTable(fn.cell)) => fn.out.lookup
    /\ (/\ run.pc = "done"
        /\ InReduceTable(req.doc[req.character]))
           => run.log[1].err # ErrInvalidNode

(***************************************************************************)
(* prettyPrintTypesString as a pure function of the formatter string.      *)
(***************************************************************************)
HasSuffix(s, suffix) ==
    Len(suffix) <= Len(s)
    /\ SubSeq(s, Len(s) - Len(suffix) + 1, Len(s)) = suffix

\* The backquote byte, which a TLA+ string cannot hold.
Backtick == "BACKQUOTE"

\* depth times four spaces.
RECURSIVE Indent(_)
Indent(depth) ==
    IF depth <= 0 THEN <<>> ELSE <<" ", " ", " ", " ">> \o Indent(depth - 1)

\* One iteration of the loop of prettyPrintTypesString on s: st holds the
\* index i (from 1), depth, inTag, the buffer b, and gaveUp, set where the
\* loop returns s unchanged.
PrettyStep(s, st) ==
    LET c == s[st.i]
    IN  IF c = ";"
        THEN IF st.inTag
             THEN [st EXCEPT !.i = @ + 1, !.b = Append(@, c)]
             ELSE [st EXCEPT !.i = @ + 2,
                             !.b = @ \o <<"\n">> \o Indent(st.depth)]
        ELSE IF c = "\""
        THEN [st EXCEPT !.i = @ + 1, !.inTag = ~@, !.b = Append(@, Backtick)]
        ELSE IF c = "\\"
        THEN [st EXCEPT !.i = @ + 2, !.b = Append(@, "\"")]
        ELSE IF c = "{"
        THEN IF st.i = Len(s)
             THEN [st EXCEPT !.gaveUp = TRUE]
             ELSE IF s[st.i + 1] = "}"
             THEN [st EXCEPT !.i = @ + 2, !.b = @ \o <<"{", "}">>]
             ELSE [st EXCEPT !.i = @ + 1, !.depth = @ + 1,
                             !.b = @ \o <<" ", "{", "\n">>
                                     \o Indent(st.depth + 1)]
        ELSE IF c = "}"
        THEN IF st.depth - 1 < 0
             THEN [st EXCEPT !.gaveUp = TRUE]
             ELSE [st EXCEPT !.i = @ + 1, !.depth = @ - 1,
                             !.b = @ \o <<"\n", "}">>]
        ELSE [st EXCEPT !.i = @ + 1, !.b = Append(@, c)]

\* The loop of prettyPrintTypesString from the loop state st on.
RECURSIVE PrettyLoop(_, _)
PrettyLoop(s, st) ==
    IF st.gaveUp THEN s
    ELSE IF st.i > Len(s) THEN st.b
    ELSE PrettyLoop(s, PrettyStep(s, st))


prettyPrintTypesString(s) ==
    IF HasSuffix(s, <<"{", "}">>) THEN <<>>
    ELSE PrettyLoop(s, [i |-> 1, depth |-> 0, inTag |-> FALSE, b |-> <<>>,
                        gaveUp |-> FALSE])

\* The bytes formatter strings are made of.
PrettyChars == {"a", " ", ";", "{", "}", "\"", "\\"}

PrettyInit ==
    /\ fn \in [phase : {"input"}, name : {"pretty"},
               s : SeqsUpTo(PrettyChars, MaxPrettyLen)]
    /\ OthersIdle

PrettyEval ==
    /\ fn.phase = "input"
    /\ fn.name = "pretty"
    /\ fn' = [phase |-> "done", name |-> "pretty", s |-> fn.s,
              once |-> prettyPrintTypesString(fn.s),
              twice |-> prettyPrintTypesString(prettyPrintTypesString(fn.s))]
    /\ UNCHANGED <<so, rc, req, run, ctxErr, sreq, srun, proj>>

PrettyNext == PrettyEval

SpecPretty == PrettyInit /\ [][PrettyNext]_vars

RECURSIVE TrimNewlines(_)
TrimNewlines(s) ==
    IF s # <<>> /\ s[Len(s)] = "\n"
    THEN TrimNewlines(SubSeq(s, 1, Len(s) - 1)) ELSE s

\* C19: applying prettyPrintTypesString to its own output gives the same
\* text again, up to newlines at the end.
PrettyFixedPoint ==
    (fn.phase = "done" /\ fn.name = "pretty")
        => TrimNewlines(fn.twice) = TrimNewlines(fn.once)

\* ---------------------------------------------------------------------
\* Symbol extraction: SymbolCollector.Visit on one AST node.
\* ---------------------------------------------------------------------

\* Most specs of one declaration, and most names of one spec.
MaxSpecs == 2
MaxSpecNames == 2

\* A position in the file: <<0, 0>> is the position of the node's own token
\* or name, <<i, j>> the position of the j-th name of the i-th spec or field.
TokPos == <<0, 0>>

\* *ast.ValueSpec and *ast.Field, by their Names.
ValueSpec(names) == [Names |-> names]

\* ast nodes Visit tells apart. Recv is <<>> for a nil receiver list and
\* otherwise the list of the receiver types; a receiver type is an
\* identifier, a star expression over one, or some other expression.
GenDeclNode(tok, specs) == [type |-> "GenDecl", Tok |-> tok, Specs |-> specs]
FuncDeclNode(name, recv) == [type |-> "FuncDecl", Name |-> name, Recv |-> recv]
TypeSpecNode(name, typ, fields) ==
    [type |-> "TypeSpec", Name |-> name, Type |-> typ, Fields |-> fields]

RecvIdent(name) == [kind |-> "Ident", Name |-> name]
RecvStar(x) == [kind |-> "StarExpr", X |-> x]
RecvOther == [kind |-> "Other"]

RECURSIVE recvString(_)
recvString(recv) ==
    IF recv.kind = "Ident" THEN recv.Name
    ELSE IF recv.kind = "StarExpr" THEN <<"*">> \o recvString(recv.X)
    ELSE <<"B", "A", "D", "R", "E", "C", "V">>

RECURSIVE specNames(_)
specNames(specs) ==
    IF specs = <<>> THEN <<>>
    ELSE Head(specs).Names \o specNames(Tail(specs))

\* declNamePos on a declaration of value specs: the position of the first
\* name of the declaration equal to name, the declaration's own position
\* when there is none.
declNamePos(decl, name) ==
    LET hits == UNION {{<<i, j>> : j \in {k \in DOMAIN decl.Specs[i].Names :
                                            decl.Specs[i].Names[k] = name}} :
                       i \in DOMAIN decl.Specs}
    IN  IF hits = {} THEN TokPos
        ELSE CHOOSE p \in hits :
                \A q \in hits : p[1] < q[1] \/ (p[1] = q[1] /\ p[2] <= q[2])

\* A collector c is [pkgSyms, pkg, file]; addSymbol appends one symbol.  It
\* hands recv to toSym in the place of the container and container in the
\* place of recv.
addSymbol(c, name, recv, container, kind, pos) ==
    [c EXCEPT !.pkgSyms =
        Append(@, [sym |-> toSym(name, c.pkg.path, c.pkg.name, recv, container,
                                 kind, c.file),
                   pos |-> pos])]

addFuncDecl(c, fun) ==
    IF fun.Recv # <<>>
    THEN LET recvTypeName ==
                 IF Len(fun.Recv) = 1 THEN recvString(fun.Recv[1])
                 ELSE recvString(RecvOther)
         IN  addSymbol(c, fun.Name, recvTypeName, recvTypeName, "SKMethod", TokPos)
    ELSE addSymbol(c, fun.Name, <<>>, <<>>, "SKFunction", TokPos)

\* The two loops of addContainer over the fields from field i, name j on.
RECURSIVE AddFields(_, _, _, _, _)
AddFields(c, containerName, fields, i, j) ==
    IF i > Len(fields) THEN c
    ELSE IF j > Len(fields[i].Names)
    THEN AddFields(c, containerName, fields, i + 1, 1)
    ELSE AddFields(addSymbol(c, fields[i].Names[j], containerName, <<>>,
                             "SKField", <<i, j>>),
                   containerName, fields, i, j + 1)

addContainer(c, containerName, fields, containerKind, containerPos) ==
    addSymbol(AddFields(c, containerName, fields, 1, 1),
              containerName, <<>>, <<>>, containerKind, containerPos)

\* The loop of Visit over the names of a const (skipBlank FALSE) or var
\* (skipBlank TRUE) declaration t.
RECURSIVE AddValueNames(_, _, _, _, _)
AddValueNames(c, t, names, kind, skipBlank) ==
    IF names = <<>> THEN c
    ELSE LET name == Head(names)
         IN  IF skipBlank /\ name = <<"_">>
             THEN AddValueNames(c, t, Tail(names), kind, skipBlank)
             ELSE AddValueNames(addSymbol(c, name, <<>>, <<>>, kind,
                                          declNamePos(t, name)),
                                t, Tail(names), kind, skipBlank)

Visit(c, n) ==
    IF n.type = "TypeSpec"
    THEN IF n.Name # <<"_">>
         THEN IF n.Type = "StructType"
              THEN addContainer(c, n.Name, n.Fields, "SKClass", TokPos)
              ELSE IF n.Type = "InterfaceType"
              THEN addContainer(c, n.Name, n.Fields, "SKInterface", TokPos)
              ELSE addSymbol(c, n.Name, <<>>, <<>>, "SKClass", TokPos)
         ELSE c
    ELSE IF n.type = "GenDecl"
    THEN IF n.Tok = "CONST"
         THEN AddValueNames(c, n, specNames(n.Specs), "SKConstant", FALSE)
         ELSE IF n.Tok = "VAR"
         THEN AddValueNames(c, n, specNames(n.Specs), "SKVariable", TRUE)
         ELSE c
    ELSE IF n.type = "FuncDecl"
    THEN addFuncDecl(c, n)
    ELSE c

\* The names of declarations: the blank name, an unexported and an exported
\* one.
DeclNames == {<<"_">>, <<"a">>, <<"B">>}

NameLists == SeqsUpTo(DeclNames, MaxSpecNames) \ {<<>>}

VisitNodes ==
    {GenDeclNode(tok, [i \in DOMAIN l |-> ValueSpec(l[i])]) :
        tok \in {"CONST", "VAR"}, l \in SeqsUpTo(NameLists, MaxSpecs)}
    \cup {GenDeclNode(tok, <<>>) : tok \in {"IMPORT", "TYPE"}}
    \cup {FuncDeclNode(<<"B">>, recv) :
            recv \in {<<>>, <<RecvIdent(<<"T">>)>>,
                      <<RecvStar(RecvIdent(<<"T">>))>>, <<RecvOther>>,
                      <<RecvIdent(<<"T">>), RecvIdent(<<"T">>)>>}}
    \cup {TypeSpecNode(name, typ, [i \in DOMAIN l |-> ValueSpec(l[i])]) :
            name \in {<<"_">>, <<"T">>},
            typ \in {"StructType", "InterfaceType", "Other"},
            l \in {<<>>, <<<<<<"a">>, <<"B">>>>>>}}
    \cup {[type |-> "BlockStmt"]}

\* The collector astPkgToSymbols starts a package walk with.
NewCollector ==
    [pkgSyms |-> <<>>, pkg |-> [path |-> <<"p">>, name |-> <<"p">>],
     file |-> <<"/", "p", "/", "a", ".", "g", "o">>]

VisitInit ==
    /\ fn \in [phase : {"input"}, name : {"visit"}, node : VisitNodes]
    /\ OthersIdle

VisitEval ==
    /\ fn.phase = "input"
    /\ fn.name = "visit"
    /\ fn' = [phase |-> "done", name |-> "visit", node |-> fn.node,
              out |-> Visit(NewCollector, fn.node).pkgSyms]
    /\ UNCHANGED <<so, rc, req, run, ctxErr, sreq, srun, proj>>

VisitNext == VisitEval

SpecVisit == VisitInit /\ [][VisitNext]_vars

\* The number of places of the sequence s that hold x.
CountOf(s, x) == Cardinality({i \in DOMAIN s : s[i] = x})

\* The places <<i, j>> of a block of specs where the j-th name of the i-th
\* spec is name.
PlacesOf(specs, name) ==
    UNION {{<<i, j>> : j \in {k \in DOMAIN specs[i].Names :
                                specs[i].Names[k] = name}} :
           i \in DOMAIN specs}

VisitedValueBlock ==
    /\ fn.phase = "done"
    /\ fn.name = "visit"
    /\ fn.node.type = "GenDecl"
    /\ fn.node.Tok \in {"CONST", "VAR"}

\* C20: for a var or const block the symbols emitted are one per declared
\* name other than the blank name, each with the block's kind (Variable for
\* var, Constant for const), and no emitted symbol is named "_".
ValueBlockSymbols ==
    VisitedValueBlock =>
        LET emitted == [i \in DOMAIN fn.out |-> fn.out[i].sym.Name]
            kind == IF fn.node.Tok = "CONST" THEN "SKConstant" ELSE "SKVariable"
        IN  /\ \A nm \in DeclNames \ {<<"_">>} :
                    CountOf(emitted, nm)
                        = Cardinality(PlacesOf(fn.node.Specs, nm))
            /\ \A i \in DOMAIN fn.out : fn.out[i].sym.Kind = kind
            /\ \A i \in DOMAIN emitted : emitted[i] # <<"_">>

(***************************************************************************)
(* Project: the workspace classifier and the filesystem watcher.           *)
(*                                                                         *)
(* The environment env of a project holds what the code reads from outside *)
(* the project: value is GO111MODULE, gopaths the GOPATH list, gomodList   *)
(* the go.mod files the walk of findGoModFiles returns for the root, and   *)
(* moduleErr, gopathErr, builtinErr tell whether the loaders module.init,  *)
(* gopath.init (of the workspace) and gopath.init (of builtin) fail.       *)
(***************************************************************************)
goext == <<".", "g", "o">>
gomod == <<"g", "o", ".", "m", "o", "d">>
vendor == <<"v", "e", "n", "d", "o", "r">>
emacsLockPrefix == <<".", "#">>

\* runtime.GOROOT() joined with "src".
goroot == <<"/", "r", "/", "s", "r", "c">>

ErrModuleInit == "module.init failed"
ErrGopathInit == "gopath.init failed"
ErrBuiltinInit == "builtin gopath.init failed"
ErrOutOfGopath == "is out of GOPATH workspace"
ErrBadRootDir == "is not correct root dir of project."

\* filepath.Dir on slash paths without "." and ".." elements.
Dir(path) ==
    LET i == LastSlash(path)
    IN  IF i = 0 THEN <<".">>
        ELSE IF i = 1 THEN <<"/">>
        ELSE Clean(SubSeq(path, 1, i - 1))

\* strings.Split(s, "/")
RECURSIVE SplitSlash(_)
SplitSlash(s) ==
    LET i == Index(s, <<"/">>)
    IN  IF i = 0 THEN <<s>>
        ELSE <<SubSeq(s, 1, i - 1)>> \o SplitSlash(SubSeq(s, i + 1, Len(s)))

\* The project NewProject returns for rootPath.
NewProject(rootPath) ==
    [rootDir |-> rootPath, vendorDir |-> Join(rootPath, vendor),
     modules |-> <<>>, gopath |-> <<>>, cached |-> FALSE,
     changedCount |-> 0, lastBuildTime |-> 0]

\* st is a project p with the notifications sent (notes) and the loaders
\* reinvoked (loads) so far.
Notify(st, err) ==
    IF err # NoErr THEN [st EXCEPT !.notes = Append(@, <<"log", "notify", err>>)]
    ELSE st

NotifyLog(st, message) == [st EXCEPT !.notes = Append(@, <<"log", message>>)]

NotifyInfo(st, message) == [st EXCEPT !.notes = Append(@, <<"info", message>>)]

NotifyError(st, message) == [st EXCEPT !.notes = Append(@, <<"error", message>>)]

RECURSIVE getImportPathFrom(_, _)
getImportPathFrom(rootDir, paths) ==
    IF paths = <<>> THEN <<>>
    ELSE LET srcDir == Join(Head(paths), <<"s", "r", "c">>)
         IN  IF HasPrefix(rootDir, srcDir) /\ rootDir # srcDir
             THEN SubSeq(rootDir, Len(srcDir) + 2, Len(rootDir))
             ELSE getImportPathFrom(rootDir, Tail(paths))

getImportPath(p, env) == getImportPathFrom(p.rootDir, env.gopaths)

isUnderGoroot(p) == HasPrefix(p.rootDir, goroot)

\* siteLenMap[site], 0 for a site that is not a key.
siteLenMap(site) ==
    IF site \in {<<"g", "i", "t", "h", "u", "b", ".", "c", "o", "m">>, <<"g", "o", "l", "a", "n", "g", ".", "o", "r", "g">>} THEN 3
    ELSE IF site = <<"g", "o", "p", "k", "g", ".", "i", "n">> THEN 2
    ELSE 0

\* sort.Slice with the order of createGoModule: descending by rootDir.
InsertModule(sorted, m) ==
    LET after == {i \in 1..Len(sorted) : StrLess(sorted[i].rootDir, m.rootDir)}
        at == IF after = {} THEN Len(sorted) + 1
              ELSE CHOOSE i \in after : \A j \in after : i <= j
    IN  SubSeq(sorted, 1, at - 1) \o <<m>> \o SubSeq(sorted, at, Len(sorted))

RECURSIVE SortModules(_)
SortModules(modules) ==
    IF modules = <<>> THEN <<>>
    ELSE InsertModule(SortModules(Tail(modules)), Head(modules))

\* The loop of createGoModule over gomodList.
RECURSIVE AddModules(_, _, _)
AddModules(st, gomodList, env) ==
    IF gomodList = <<>> THEN st
    ELSE LET module == [rootDir |-> Dir(Head(gomodList))]
             err == IF env.moduleErr THEN ErrModuleInit ELSE NoErr
             st1 == Notify(st, err)
         IN  AddModules([st1 EXCEPT !.p.modules = Append(@, module)],
                        Tail(gomodList), env)

createGoModule(st, gomodList, env) ==
    LET st1 == AddModules(st, gomodList, env)
    IN  IF Len(st1.p.modules) = 0 THEN [st |-> st1, err |-> NoErr]
        ELSE [st |-> [st1 EXCEPT !.p.cached = TRUE,
                                 !.p.modules = SortModules(@)],
              err |-> NoErr]

\* newGopath builds a unit and leaves the project as it is.
newGopath(rootDir, importPath, underGoroot) ==
    [rootDir |-> rootDir, importPath |-> importPath,
     underGoroot |-> underGoroot]

\* createGoPath keeps the unit in a local variable: p.gopath stays nil.  unit
\* is the unit whose loader ran.
createGoPath(st, importPath, underGoroot, env) ==
    LET gopath == newGopath(st.p.rootDir, importPath, underGoroot)
        err == IF env.gopathErr THEN ErrGopathInit ELSE NoErr
    IN  [st |-> [st EXCEPT !.p.cached = (err = NoErr)], err |-> err,
         unit |-> <<gopath>>]

createBuiltin(st, env) ==
    [st |-> st, err |-> IF env.builtinErr THEN ErrBuiltinInit ELSE NoErr]

\* The notifyLog of findGoModFiles for every go.mod the walk finds.
RECURSIVE LogGoModFiles(_, _)
LogGoModFiles(st, gomodList) ==
    IF gomodList = <<>> THEN st
    ELSE LogGoModFiles(NotifyLog(st, Head(gomodList)), Tail(gomodList))

\* findGoModFiles: env.gomodList is what the walk of the root finds, each
\* file logged as it is found; walkDir returns no error.
findGoModFiles(st, env) ==
    [st |-> LogGoModFiles(st, env.gomodList), gomodList |-> env.gomodList]

\* createProject: the new state, the error, the branch taken and the
\* source-path unit made, if any.
createProject(st, env) ==
    LET value == env.value
        importPath == getImportPath(st.p, env)
        dirs == SplitSlash(importPath)
    IN  IF value = <<"o", "n">>
        THEN LET f == findGoModFiles(NotifyLog(st, "GO111MODULE=on, module mode"),
                                     env)
             IN  createGoModule(f.st, f.gomodList, env)
                    @@ [mode |-> "module", unit |-> <<>>]
        ELSE IF isUnderGoroot(st.p)
        THEN createGoPath(NotifyLog(st, "under go root dir"), <<>>, TRUE, env)
                @@ [mode |-> "goroot"]
        ELSE IF (value = <<>> \/ value = <<"a", "u", "t", "o">>) /\ importPath = <<>>
        THEN LET f == findGoModFiles(
                          NotifyLog(NotifyLog(st, "GOPATH, import path"),
                                    "GO111MODULE=auto, module mode"), env)
             IN  createGoModule(f.st, f.gomodList, env)
                    @@ [mode |-> "module", unit |-> <<>>]
        ELSE IF importPath = <<>>
        THEN [st |-> NotifyLog(st, "GOPATH, import path"),
              err |-> ErrOutOfGopath, mode |-> "none", unit |-> <<>>]
        ELSE IF Len(dirs) < siteLenMap(dirs[1])
        THEN [st |-> NotifyLog(st, "GOPATH, import path"),
              err |-> ErrBadRootDir, mode |-> "none", unit |-> <<>>]
        ELSE createGoPath(NotifyLog(NotifyLog(st, "GOPATH, import path"),
                                    "GOPATH mode"),
                          importPath, FALSE, env) @@ [mode |-> "gopath"]

\* Project.Init returning the error of createProject instead of nil.
ProjectInitReturnsErr(st, env, globalCacheStyle, now) ==
    LET done(s) == NotifyInfo(s, "load successfully")
    IN  IF globalCacheStyle = "none"
        THEN [st |-> done(st), err |-> NoErr, mode |-> "off", unit |-> <<>>,
              watching |-> FALSE]
        ELSE LET b == createBuiltin(st, env)
                 st1 == Notify(b.st, b.err)
             IN  IF globalCacheStyle # "always"
                 THEN [st |-> done(st1), err |-> NoErr, mode |-> "off",
                       unit |-> <<>>, watching |-> FALSE]
                 ELSE LET c == createProject(st1, env)
                          st2 == [Notify(c.st, c.err)
                                     EXCEPT !.p.lastBuildTime = now]
                      IN  [st |-> done(st2), err |-> c.err, mode |-> c.mode,
                           unit |-> c.unit, watching |-> st2.p.cached]

\* Project.Init at time now: the new state, the returned error, the branch
\* createProject took ("off" when it did not run), the source-path unit it
\* made and whether fsnotify started the watcher.
ProjectInit(st, env, globalCacheStyle, now) ==
    LET done(s) == NotifyInfo(s, "load successfully")
    IN  IF globalCacheStyle = "none"
        THEN [st |-> done(st), err |-> NoErr, mode |-> "off", unit |-> <<>>,
              watching |-> FALSE]
        ELSE LET b == createBuiltin(st, env)
                 st1 == Notify(b.st, b.err)
             IN  IF globalCacheStyle # "always"
                 THEN [st |-> done(st1), err |-> NoErr, mode |-> "off",
                       unit |-> <<>>, watching |-> FALSE]
                 ELSE LET c == createProject(st1, env)
                          st2 == [Notify(c.st, c.err)
                                     EXCEPT !.p.lastBuildTime = now]
                      IN  [st |-> done(st2), err |-> NoErr, mode |-> c.mode,
                           unit |-> c.unit, watching |-> st2.p.cached]

\* The workspace roots: outside every tree, in the toolchain tree, the bare
\* source root of a GOPATH, and roots below it.
ProjectRoots ==
    {<<"/", "w">>, <<"/", "r", "/", "s", "r", "c", "/", "f", "m", "t">>, <<"/", "g", "/", "s", "r", "c">>, <<"/", "g", "/", "s", "r", "c", "/", "a">>,
     <<"/", "g", "/", "s", "r", "c", "/", "g", "i", "t", "h", "u", "b", ".", "c", "o", "m", "/", "u">>, <<"/", "g", "/", "s", "r", "c", "/", "g", "i", "t", "h", "u", "b", ".", "c", "o", "m", "/", "u", "/", "p">>}

GopathLists == {<<<<"/", "g">>>>, <<<<"/", "h">>, <<"/", "g">>>>}

\* What the walk of findGoModFiles can return for a root: no manifest, the
\* root's manifest, or three manifests of the root and two directories.
GomodLists(root) ==
    {<<>>, <<Join(root, gomod)>>,
     <<Join(root, <<"a", "/", "g", "o", ".", "m", "o", "d">>), Join(root, <<"a", "b", "/", "g", "o", ".", "m", "o", "d">>), Join(root, gomod)>>}

ProjEnvs(root) ==
    [value : {<<"o", "n">>, <<"o", "f", "f">>, <<"a", "u", "t", "o">>, <<>>},
     gopaths : GopathLists, gomodList : GomodLists(root),
     moduleErr : BOOLEAN, gopathErr : BOOLEAN, builtinErr : BOOLEAN]

CacheStyles == {"none", "on-demand", "always"}

ClassifyInit ==
    /\ \E root \in ProjectRoots : \E env \in ProjEnvs(root) :
          proj = [phase |-> "new", env |-> env,
                  st |-> [p |-> NewProject(root), notes |-> <<>>,
                          loads |-> <<>>]]
    /\ so = SoIdle
    /\ rc = RcIdle
    /\ ReqIdle
    /\ SymIdle
    /\ fn = FnIdle

\* The server calls Project.Init with the cache style of its configuration.
ClassifyRun ==
    /\ proj.phase = "new"
    /\ \E style \in CacheStyles :
          LET r == ProjectInit(proj.st, proj.env, style, 0)
          IN  proj' = [phase |-> "ready", env |-> proj.env, style |-> style,
                       st |-> r.st, err |-> r.err, mode |-> r.mode,
                       unit |-> r.unit, watching |-> r.watching]
    /\ UNCHANGED <<so, rc, req, run, ctxErr, sreq, srun, fn>>

ClassifyNext == ClassifyRun

SpecClassify == ClassifyInit /\ [][ClassifyNext]_vars

\* The directory dir lies below the directory tree.
UnderTree(dir, tree) == HasPrefix(dir, tree \o <<"/">>)

UnderSomeGopath(dir, gopaths) ==
    \E i \in DOMAIN gopaths : UnderTree(dir, gopaths[i] \o <<"/", "s", "r", "c">>)

Classified == proj.phase = "ready" /\ proj.style = "always"

\* C21: createProject takes module mode when GO111MODULE is on, or when it
\* is auto or empty and the root is under no GOPATH/src tree; otherwise the
\* toolchain unit when the root is under the toolchain tree; otherwise
\* source-path mode with the root's path below GOPATH/src as import path,
\* unless the root is refused with an error.
ClassifyByPriority ==
    Classified =>
        LET root == proj.st.p.rootDir
            value == proj.env.value
        IN  IF \/ value = <<"o", "n">>
               \/ /\ value \in {<<"a", "u", "t", "o">>, <<>>}
                  /\ ~UnderSomeGopath(root, proj.env.gopaths)
            THEN proj.mode = "module"
            ELSE IF UnderTree(root, goroot)
            THEN /\ proj.mode = "goroot"
                 /\ proj.unit # <<>>
            ELSE \/ proj.mode = "none"
                 \/ /\ proj.mode = "gopath"
                    /\ proj.unit # <<>>
                    /\ \E i \in DOMAIN proj.env.gopaths :
                           root = proj.env.gopaths[i] \o <<"/", "s", "r", "c", "/">>
                                      \o proj.unit[1].importPath

(***************************************************************************)
(* The watcher: Project.update on one event.  files is the view's file     *)
(* table (the overlay), keyed by URI; now is time.Now() in seconds.        *)
(***************************************************************************)
RebuildCount == 20
RebuildSeconds == 60

\* needRebuild, the tests on the event name: "rebuild" for a name that ends
\* in go.mod, "ignore" for a name that begins with ".#" or does not end in
\* ".go", "file" when the file table has to be asked.
needRebuildName(eventName) ==
    IF HasSuffix(eventName, gomod) THEN "rebuild"
    ELSE IF HasPrefix(eventName, emacsLockPrefix) THEN "ignore"
    ELSE IF ~HasSuffix(eventName, goext) THEN "ignore"
    ELSE "file"

\* needRebuild, the look into the file table of the view, under v.mu.
needRebuildFile(eventName, files) == PathToURI(eventName) \in files

\* needRebuild, the counter: decided tells whether needRebuild returns here.
needRebuildCount(st) ==
    LET st1 == [st EXCEPT !.p.changedCount = @ + 1]
    IN  IF st1.p.changedCount > RebuildCount
        THEN [st |-> [st1 EXCEPT !.p.changedCount = 0], decided |-> TRUE]
        ELSE [st |-> st1, decided |-> FALSE]

\* needRebuild, the last line: the clock is read.
needRebuildClock(st, now) == now - st.p.lastBuildTime >= RebuildSeconds

\* needRebuild when nothing runs beside it: files is the file table when it
\* is read and now the clock when it is read.
needRebuild(st, eventName, files, now) ==
    LET kind == needRebuildName(eventName)
    IN  IF kind = "rebuild" THEN [st |-> st, need |-> TRUE]
        ELSE IF kind = "ignore" THEN [st |-> st, need |-> FALSE]
        ELSE IF needRebuildFile(eventName, files) THEN [st |-> st, need |-> FALSE]
        ELSE LET c == needRebuildCount(st)
             IN  IF c.decided THEN [st |-> c.st, need |-> TRUE]
                 ELSE [st |-> c.st, need |-> needRebuildClock(c.st, now)]

rebuildGopapthCache(st, eventName) ==
    IF st.p.gopath = <<>> THEN st
    ELSE IF HasSuffix(eventName, st.p.gopath[1].rootDir)
    THEN [st EXCEPT !.loads = Append(@, <<"gopath", st.p.gopath[1].rootDir>>)]
    ELSE st

\* The loop of rebuildModuleCache from module i on; m.rebuildCache fails
\* when env.moduleErr and otherwise answers rebuild.
RECURSIVE RebuildModules(_, _, _, _, _)
RebuildModules(st, eventName, i, env, rebuild) ==
    IF i > Len(st.p.modules) THEN st
    ELSE LET m == st.p.modules[i]
         IN  IF HasPrefix(Dir(eventName), m.rootDir)
             THEN LET st1 == [st EXCEPT !.loads = Append(@, <<"module", m.rootDir>>)]
                  IN  IF env.moduleErr THEN NotifyError(st1, ErrModuleInit)
                      ELSE IF rebuild
                      THEN NotifyInfo(st1, "rebuild module cache")
                      ELSE st1
             ELSE RebuildModules(st, eventName, i + 1, env, rebuild)

rebuildModuleCache(st, eventName, env, rebuild) ==
    IF Len(st.p.modules) = 0 THEN st
    ELSE RebuildModules(st, eventName, 1, env, rebuild)

\* Project.update from the loaders on: they run, and the clock is read
\* again (later) for lastBuildTime.
updateRebuild(st, eventName, env, rebuild, later) ==
    LET st2 == rebuildGopapthCache(st, eventName)
        st3 == rebuildModuleCache(st2, eventName, env, rebuild)
    IN  [st3 EXCEPT !.p.lastBuildTime = later]

\* Project.update: the new state and what needRebuild answered; now is the
\* clock needRebuild reads and later the clock read once the loaders are
\* back.
update(st, eventName, files, now, later, env, rebuild) ==
    LET n == needRebuild(st, eventName, files, now)
    IN  IF n.need
        THEN [st |-> updateRebuild(NotifyLog(n.st, "fsnotify"), eventName,
                                   env, rebuild, later),
              need |-> TRUE]
        ELSE n

\* The clock moves by half of RebuildSeconds at a time, MaxTicks times.
MaxTicks == 2

\* The environments of the watched projects: three modules below /w, one
\* module whose loader fails, and a source-path unit at /g/src/a.
WatchEnv(value, gomodList, moduleErr) ==
    [value |-> value, gopaths |-> <<<<"/", "g">>>>, gomodList |-> gomodList,
     moduleErr |-> moduleErr, gopathErr |-> FALSE, builtinErr |-> FALSE]

WatchedProjects ==
    {[root |-> <<"/", "w">>,
      env |-> WatchEnv(<<"a", "u", "t", "o">>, <<<<"/", "w", "/", "a", "/", "g", "o", ".", "m", "o", "d">>, <<"/", "w", "/", "a", "b", "/", "g", "o", ".", "m", "o", "d">>, <<"/", "w", "/", "g", "o", ".", "m", "o", "d">>>>, FALSE)],
     [root |-> <<"/", "w">>,
      env |-> WatchEnv(<<"o", "n">>, <<<<"/", "w", "/", "a", "b", "/", "g", "o", ".", "m", "o", "d">>>>, TRUE)],
     [root |-> <<"/", "g", "/", "s", "r", "c", "/", "a">>, env |-> WatchEnv(<<"o", "f", "f">>, <<>>, FALSE)]}

\* The files events are about, below the root or outside it.
EventNames(root) ==
    {Join(root, n) : n \in {<<"x", ".", "g", "o">>, <<"g", "o", ".", "m", "o", "d">>, <<".", "#", "x", ".", "g", "o">>, <<"x", ".", "t", "x", "t">>,
                            <<".", "#", "g", "o", ".", "m", "o", "d">>, <<"x", "g", "o", ".", "m", "o", "d">>,
                            <<"a", "/", "y", ".", "g", "o">>, <<"a", "b", "c", "/", "z", ".", "g", "o">>}}
    \cup {<<"/", "o", "/", "x", ".", "g", "o">>}

\* The files a view is asked for: the file x.go of the root.
WatchedURIs(root) == {PathToURI(Join(root, <<"x", ".", "g", "o">>))}

\* The file tables of a view: no file, or the file x.go of the root.
WatchedFiles(root) == SUBSET WatchedURIs(root)

\* The view needRebuild got from p.getView(): the view of the project (cur)
\* or a view Project.SetView has replaced since, with its own file table.
HeldView(cur, files) == [cur |-> cur, files |-> files]

\* The file table of the view held by the running needRebuild.
HeldFiles(pr) == IF pr.held[1].cur THEN pr.files ELSE pr.held[1].files

\* Project.Init("always") returned at time 0 and started the watcher; the
\* view holds no file or the file x.go of the root.
WatchInit ==
    /\ \E w \in WatchedProjects :
       \E files \in WatchedFiles(w.root) :
          LET r == ProjectInit([p |-> NewProject(w.root), notes |-> <<>>,
                                loads |-> <<>>], w.env, "always", 0)
          IN  /\ r.watching
              /\ proj = [phase |-> "watching", env |-> w.env, root |-> w.root,
                         unit |-> r.unit,
                         st |-> [r.st EXCEPT !.notes = <<>>], files |-> files,
                         now |-> 0, last |-> <<>>, hist |-> <<>>,
                         pc |-> "idle", pending |-> <<>>, held |-> <<>>]
    /\ so = SoIdle
    /\ rc = RcIdle
    /\ ReqIdle
    /\ SymIdle
    /\ fn = FnIdle

\* needRebuild returned need for the event of the running update: update
\* logs and goes on to the loaders, or returns.  last keeps the event and
\* the answer; hist keeps how the last rebuild was triggered and the events
\* counted since.
Decide(pr, eventName, st, need) ==
    [pr EXCEPT
        !.st = IF need THEN NotifyLog(st, "fsnotify") ELSE st,
        !.pc = IF need THEN "rebuild" ELSE "idle",
        !.pending = IF need THEN <<eventName>> ELSE <<>>,
        !.last = <<[eventName |-> eventName, need |-> need]>>,
        !.hist = IF need
                 THEN <<[byManifest |-> HasSuffix(eventName, gomod),
                         counted |-> 0]>>
                 ELSE @]

\* The watcher delivers one event to Project.update, when the update of the
\* event before has returned.  needRebuild tests the name and, for a source
\* file, takes the view of the project with p.getView(); p.viewMu is free
\* again when getView returns.  st keeps the notifications and loader calls
\* of this update alone; pending holds the event of the update that runs,
\* held the view it took, and pc says where it is.
WatchEvent ==
    /\ proj.phase = "watching"
    /\ proj.pc = "idle"
    /\ \E eventName \in EventNames(proj.root) :
          LET st0 == [proj.st EXCEPT !.notes = <<>>, !.loads = <<>>]
              kind == needRebuildName(eventName)
          IN  IF kind = "rebuild"
              THEN proj' = Decide(proj, eventName, st0, TRUE)
              ELSE IF kind = "ignore"
              THEN proj' = Decide(proj, eventName, st0, FALSE)
              ELSE proj' = [proj EXCEPT !.st = st0, !.pc = "lookup",
                                         !.pending = <<eventName>>,
                                         !.held = <<HeldView(TRUE, {})>>]
    /\ UNCHANGED <<so, rc, req, run, ctxErr, sreq, srun, fn>>

\* needRebuild locks v.mu of the view it took and looks the file up in that
\* view's table; v.mu is free again before it counts.
WatchLookup ==
    /\ proj.phase = "watching"
    /\ proj.pc = "lookup"
    /\ LET looked == [proj EXCEPT !.held = <<>>]
       IN  IF needRebuildFile(proj.pending[1], HeldFiles(proj))
           THEN proj' = Decide(looked, proj.pending[1], proj.st, FALSE)
           ELSE proj' = [looked EXCEPT !.pc = "count"]
    /\ UNCHANGED <<so, rc, req, run, ctxErr, sreq, srun, fn>>

\* needRebuild counts the event and compares the counter.
WatchCount ==
    /\ proj.phase = "watching"
    /\ proj.pc = "count"
    /\ LET c == needRebuildCount(proj.st)
           counted == [proj EXCEPT
                          !.hist = IF @ = <<>> THEN <<>>
                                   ELSE <<[@[1] EXCEPT !.counted = @ + 1]>>]
       IN  IF c.decided
           THEN proj' = Decide(counted, proj.pending[1], c.st, TRUE)
           ELSE proj' = [counted EXCEPT !.st = c.st, !.pc = "clock"]
    /\ UNCHANGED <<so, rc, req, run, ctxErr, sreq, srun, fn>>

\* needRebuild reads the clock and answers.
WatchClock ==
    /\ proj.phase = "watching"
    /\ proj.pc = "clock"
    /\ proj' = Decide(proj, proj.pending[1], proj.st,
                      needRebuildClock(proj.st, proj.now))
    /\ UNCHANGED <<so, rc, req, run, ctxErr, sreq, srun, fn>>

\* The loaders of the running update return and update reads the clock for
\* lastBuildTime.
WatchRebuild ==
    /\ proj.phase = "watching"
    /\ proj.pc = "rebuild"
    /\ \E rebuild \in BOOLEAN :
          proj' = [proj EXCEPT
                      !.st = updateRebuild(proj.st, proj.pending[1], proj.env,
                                           rebuild, proj.now),
                      !.pc = "idle",
                      !.pending = <<>>]
    /\ UNCHANGED <<so, rc, req, run, ctxErr, sreq, srun, fn>>

\* The clock moves, also while an update runs.
Tick ==
    /\ proj.phase = "watching"
    /\ proj.now < MaxTicks * (RebuildSeconds \div 2)
    /\ proj' = [proj EXCEPT !.now = @ + RebuildSeconds \div 2]
    /\ UNCHANGED <<so, rc, req, run, ctxErr, sreq, srun, fn>>

\* Project.SetView, also while an update runs: the project gets another
\* view, with a file table of its own, or gets back the view the running
\* needRebuild took.  A view needRebuild took and the project no longer has
\* keeps its table.
SetView ==
    /\ proj.phase = "watching"
    /\ LET holds == proj.held # <<>> /\ proj.held[1].cur
       IN  \/ \E files \in WatchedFiles(proj.root) :
                 /\ files # proj.files \/ holds
                 /\ proj' = [proj EXCEPT
                                 !.files = files,
                                 !.held = IF holds
                                          THEN <<HeldView(FALSE, proj.files)>>
                                          ELSE @]
           \/ /\ proj.held # <<>>
              /\ ~proj.held[1].cur
              /\ proj' = [proj EXCEPT !.files = proj.held[1].files,
                                      !.held = <<HeldView(TRUE, {})>>]
    /\ UNCHANGED <<so, rc, req, run, ctxErr, sreq, srun, fn>>

\* v.getFile(uri) of Project.TypeCheck, also while an update runs: a file
\* is added to the table of the view TypeCheck took, which is the view of
\* the project or a view replaced since, the one needRebuild took included.
getFile ==
    /\ proj.phase = "watching"
    /\ \E uri \in WatchedURIs(proj.root) :
          \/ /\ uri \notin proj.files
             /\ proj' = [proj EXCEPT !.files = @ \cup {uri}]
          \/ /\ proj.held # <<>>
             /\ ~proj.held[1].cur
             /\ uri \notin proj.held[1].files
             /\ proj' = [proj EXCEPT
                             !.held = <<HeldView(FALSE, @[1].files \cup {uri})>>]
    /\ UNCHANGED <<so, rc, req, run, ctxErr, sreq, srun, fn>>

WatchNext ==
    \/ WatchEvent \/ WatchLookup \/ WatchCount \/ WatchClock \/ WatchRebuild
    \/ Tick \/ SetView \/ getFile

SpecWatch == WatchInit /\ [][WatchNext]_vars

\* A step of needRebuild: the clock, the view of the project and the file
\* tables are as they were and the loaders are not running.
NeedStep ==
    /\ proj.phase = "watching"
    /\ proj.pc \in {"idle", "lookup", "count", "clock"}
    /\ proj'.now = proj.now
    /\ proj'.files = proj.files
    /\ proj'.held = proj.held \/ proj'.pc # proj.pc
    /\ proj'.last # <<>> \/ proj'.pending # <<>>

\* The event of a step of needRebuild.
StepEvent ==
    IF proj'.pending # <<>> THEN proj'.pending[1] ELSE proj'.last[1].eventName

\* The step of needRebuild in which it returns.
DecisionStep == NeedStep /\ proj'.pc \in {"idle", "rebuild"} /\ proj'.last # <<>>

\* C22: needRebuild answers true for an event exactly when the event is on
\* a go.mod file, or the event was counted and, with the counter
\* incremented, the counter exceeds 20 or 60 seconds or more have passed
\* since the last rebuild when the clock is read.
NeedRebuildRule ==
    [][DecisionStep =>
        LET eventName == proj'.last[1].eventName
            counted == proj.pc \in {"count", "clock"}
            incremented == IF proj.pc = "count"
                           THEN proj.st.p.changedCount + 1
                           ELSE proj.st.p.changedCount
            elapsed == proj.now - proj.st.p.lastBuildTime
        IN  proj'.last[1].need
                <=> \/ Base(eventName) = <<"g", "o", ".", "m", "o", "d">>
                    \/ counted /\ (incremented > 20 \/ elapsed >= 60)]_vars

\* C23: an event whose basename begins with ".#", or on a file that is
\* neither a source file nor a go.mod, or on a file held, when needRebuild
\* looks it up, in the file table of the view needRebuild took, triggers no
\* rebuild and leaves the change counter and the time of the last rebuild as
\* they were.
WatcherNoOp ==
    [][NeedStep =>
        LET eventName == StepEvent
            base == Base(eventName)
            ignored == \/ HasPrefix(base, <<".", "#">>)
                       \/ ~HasSuffix(base, <<".", "g", "o">>) /\ base # <<"g", "o", ".", "m", "o", "d">>
                       \/ /\ proj.pc = "lookup"
                          /\ PathToURI(eventName) \in HeldFiles(proj)
        IN  ignored =>
                /\ proj'.pc \in {"idle", "lookup", "count", "clock"}
                /\ proj'.st.p.changedCount = proj.st.p.changedCount
                /\ proj'.st.p.lastBuildTime = proj.st.p.lastBuildTime]_vars

\* The last event triggered a rebuild and its update has returned.
Rebuilt ==
    /\ proj.phase = "watching"
    /\ proj.last # <<>>
    /\ proj.last[1].need
    /\ proj.pc = "idle"

\* The module roots reloaded by the last update.
ReloadedModules ==
    [i \in {j \in DOMAIN proj.st.loads : proj.st.loads[j][1] = "module"}
        |-> proj.st.loads[i][2]]

\* C24: the module list is in descending order of root directory, and a
\* rebuild reloads the one module whose root is the longest root that is a
\* directory above the event's file, and no module when there is none.
ModuleReloadOwner ==
    (proj.phase \in {"ready", "watching"}) =>
        LET modules == proj.st.p.modules
        IN  /\ \A i, j \in DOMAIN modules :
                  i < j => StrLess(modules[j].rootDir, modules[i].rootDir)
            /\ Rebuilt =>
                  LET above == {i \in DOMAIN modules :
                                   UnderTree(proj.last[1].eventName,
                                             modules[i].rootDir)}
                      reloaded == {ReloadedModules[i] : i \in DOMAIN ReloadedModules}
                  IN  IF above = {} THEN reloaded = {}
                      ELSE /\ \E i \in above :
                                /\ \A j \in above :
                                      Len(modules[j].rootDir) <= Len(modules[i].rootDir)
                                /\ reloaded = {modules[i].rootDir}
                           /\ Cardinality(DOMAIN ReloadedModules) = 1

\* C25: in a workspace loaded as a source-path unit, a rebuild for an event
\* on a file below the unit's root directory reinvokes the unit's loader.
GopathReload ==
    (Rebuilt /\ proj.unit # <<>>
       /\ UnderTree(proj.last[1].eventName, proj.unit[1].rootDir))
        => \E i \in DOMAIN proj.st.loads :
              proj.st.loads[i] = <<"gopath", proj.unit[1].rootDir>>

\* C28: of two rebuilds that follow one another and are both triggered by
\* events on names that do not end in go.mod, the second is decided 21 or
\* more counted events, or 60 seconds or more, after the first.
DebounceGap ==
    [][(/\ DecisionStep
        /\ proj'.last[1].need
        /\ ~HasSuffix(proj'.last[1].eventName, <<"g", "o", ".", "m", "o", "d">>)
        /\ proj.hist # <<>>
        /\ ~proj.hist[1].byManifest)
        => \/ proj.hist[1].counted + (IF proj.pc = "count" THEN 1 ELSE 0) >= 21
           \/ proj.now - proj.st.p.lastBuildTime >= 60]_vars

\* The error err was sent as a notification.
Notified(err) ==
    \E i \in DOMAIN proj.st.notes : proj.st.notes[i] = <<"log", "notify", err>>

\* C30: Project.Init returns nil whatever the cache style and whatever the
\* loaders do; a failure of the builtin load or of createProject is sent as
\* a notification; the watcher runs only if the style is "always" and the
\* project is marked cached.
InitNeverFails ==
    (proj.phase = "ready") =>
        /\ proj.err = NoErr
        /\ (proj.env.builtinErr /\ proj.style # "none") => Notified(ErrBuiltinInit)
        /\ (proj.style = "always" /\ proj.env.gopathErr
              /\ proj.mode \in {"goroot", "gopath"}) => Notified(ErrGopathInit)
        /\ (proj.style = "always" /\ proj.mode = "none")
              => Notified(ErrOutOfGopath) \/ Notified(ErrBadRootDir)
        /\ proj.watching => proj.style = "always" /\ proj.st.p.cached

\* Init ran with style "always", the source-path loader failed, and Init
\* ended without an error and without a watcher.
InitNeverFailsWitness ==
    /\ proj.phase = "ready"
    /\ proj.style = "always"
    /\ proj.mode = "gopath"
    /\ proj.env.gopathErr
    /\ proj.env.builtinErr
    /\ ~proj.watching
    /\ proj.err = NoErr

(***************************************************************************)
(* Project.setCache on a list of packages of an import graph.  A package   *)
(* is its ID; graph gives for every ID whether the package has syntax      *)
(* trees and the IDs it imports.  NilPkg is the nil package.               *)
(***************************************************************************)
MaxRoots == 2

PkgIds == {"A", "B", "C"}

NilPkg == "<nil package>"

ImportGraphs ==
    [PkgIds -> {[Syntax |-> s, Imports |-> i] :
                    s \in {0, 1}, i \in SUBSET PkgIds}]

\* A running setCache c holds seen, for every ID how many times it was
\* given to PackageCache.put, the IDs in the cache of the view (cache) and
\* in the cache it replaced (replaced), the put that getCache was called
\* for and that has not been done (pending, with the cache getCache
\* returned), and the stack of the loops that are not over: the packages a
\* loop has still to range over, a sequence for the slice pkgs of setCache
\* and a set for a map pkg.Imports, the innermost loop last.
\*
\* setOnePackage up to p.getCache(): the package is marked seen and
\* getCache returns the cache of the moment.
setOnePackage(c, pkg, graph) ==
    IF pkg = NilPkg \/ graph[pkg].Syntax = 0 THEN c
    ELSE IF pkg \in c.seen THEN c
    ELSE [c EXCEPT !.seen = @ \cup {pkg},
                   !.pending = <<[pkg |-> pkg, into |-> "cache"]>>]

\* setOnePackage from put on: put installs the one package it is given in
\* the cache getCache returned, and the loop over the imports begins.
putOnePackage(c, graph) ==
    LET pkg == c.pending[1].pkg
        into == c.pending[1].into
    IN  [c EXCEPT !.puts[pkg] = @ + 1,
                  !.cache = IF into = "cache" THEN @ \cup {pkg} ELSE @,
                  !.replaced = IF into = "replaced" THEN @ \cup {pkg} ELSE @,
                  !.pending = <<>>,
                  !.stack = Append(@, [slice |-> <<>>,
                                       map |-> graph[pkg].Imports])]

\* The loops that have nothing left to range over return.
RECURSIVE ReturnLoops(_)
ReturnLoops(stack) ==
    IF stack = <<>> THEN <<>>
    ELSE LET top == stack[Len(stack)]
         IN  IF top.slice = <<>> /\ top.map = {}
             THEN ReturnLoops(SubSeq(stack, 1, Len(stack) - 1))
             ELSE stack

\* setCache before its loop.
setCache(pkgs) ==
    [seen |-> {}, puts |-> [id \in PkgIds |-> 0], cache |-> {},
     replaced |-> {}, pending |-> <<>>,
     stack |-> ReturnLoops(<<[slice |-> pkgs, map |-> {}]>>)]

SetCacheInit ==
    /\ fn \in [phase : {"input"}, name : {"setCache"}, graph : ImportGraphs,
               pkgs : SeqsUpTo(PkgIds \cup {NilPkg}, MaxRoots)]
    /\ OthersIdle

\* The loader calls setCache on the packages it loaded.
SetCacheEval ==
    /\ fn.phase = "input"
    /\ fn.name = "setCache"
    /\ LET c == setCache(fn.pkgs)
       IN  fn' = [phase |-> IF c.stack = <<>> THEN "done" ELSE "run",
                  name |-> "setCache", graph |-> fn.graph, pkgs |-> fn.pkgs,
                  c |-> c, swapped |-> FALSE]
    /\ UNCHANGED <<so, rc, req, run, ctxErr, sreq, srun, proj>>

\* The innermost loop calls setOnePackage on its next package: the next
\* element of a slice, any remaining key of a map.  The call returns at
\* once or goes as far as getCache.
SetCacheStep ==
    /\ fn.phase = "run"
    /\ fn.name = "setCache"
    /\ fn.c.pending = <<>>
    /\ LET n == Len(fn.c.stack)
           top == fn.c.stack[n]
       IN  \E pkg \in IF top.slice # <<>> THEN {Head(top.slice)} ELSE top.map :
              LET rest == IF top.slice # <<>>
                          THEN [top EXCEPT !.slice = Tail(@)]
                          ELSE [top EXCEPT !.map = @ \ {pkg}]
                  c1 == setOnePackage([fn.c EXCEPT !.stack[n] = rest], pkg,
                                      fn.graph)
                  c2 == IF c1.pending # <<>> THEN c1
                        ELSE [c1 EXCEPT !.stack = ReturnLoops(@)]
              IN  fn' = [fn EXCEPT !.c = c2,
                                   !.phase = IF c2.stack = <<>> THEN "done"
                                             ELSE "run"]
    /\ UNCHANGED <<so, rc, req, run, ctxErr, sreq, srun, proj>>

\* put on the cache getCache returned, then the loop over the imports.
SetCachePut ==
    /\ fn.phase = "run"
    /\ fn.name = "setCache"
    /\ fn.c.pending # <<>>
    /\ LET c1 == putOnePackage(fn.c, fn.graph)
           c2 == [c1 EXCEPT !.stack = ReturnLoops(@)]
       IN  fn' = [fn EXCEPT !.c = c2,
                            !.phase = IF c2.stack = <<>> THEN "done"
                                      ELSE "run"]
    /\ UNCHANGED <<so, rc, req, run, ctxErr, sreq, srun, proj>>

\* Project.SetCache (or SetView) replaces the cache while setCache runs: a
\* put whose getCache is behind goes to the cache that was replaced, the
\* puts that follow to the new one.
SetCacheSwap ==
    /\ fn.phase = "run"
    /\ fn.name = "setCache"
    /\ ~fn.swapped
    /\ fn' = [fn EXCEPT
                 !.c.replaced = fn.c.cache,
                 !.c.cache = {},
                 !.c.pending = IF @ = <<>> THEN <<>>
                               ELSE <<[@[1] EXCEPT !.into = "replaced"]>>,
                 !.swapped = TRUE]
    /\ UNCHANGED <<so, rc, req, run, ctxErr, sreq, srun, proj>>

SetCacheNext == SetCacheEval \/ SetCacheStep \/ SetCachePut \/ SetCacheSwap

SpecSetCache == SetCacheInit /\ [][SetCacheNext]_vars

\* The IDs reached from id by one or more imports.
ImportedBy(graph, id) ==
    LET step(S) == S \cup UNION {graph[x].Imports : x \in S}
    IN  step(step(step(graph[id].Imports)))

\* C26: setCache ends, installs no package ID twice, and, when the cache
\* was not replaced meanwhile, leaves it closed under imports: with a
\* package, every package it imports, directly or not, is installed.
SetCacheClosed ==
    (fn.phase = "done" /\ fn.name = "setCache" /\ ~fn.swapped) =>
        LET installed == fn.c.cache
        IN  /\ \A id \in PkgIds : fn.c.puts[id] <= 1
            /\ \A id \in installed : ImportedBy(fn.graph, id) \subseteq installed

\* The scored symbols of the cached packages that pass the file, dir and
\* exported filters of the query and score above zero.
SymbolCandidates(cache, q) ==
    UNION {{[score |-> score(q, pkg.syms[k]), sym |-> pkg.syms[k]] :
              k \in {n \in DOMAIN pkg.syms :
                        /\ q.File # <<>> =>
                              \E file \in pkg.files : PathEqual(file, q.File)
                        /\ q.Filter = FilterDir => PathEqual(pkg.path, q.Dir)
                        /\ q.Filter = FilterExported =>
                              /\ IsExportedName(pkg.syms[n].Name)
                              /\ pkg.syms[n].ContainerName # <<>> =>
                                    IsExportedName(pkg.syms[n].ContainerName)
                        /\ score(q, pkg.syms[n]) > 0}} :
           pkg \in {cache[i] : i \in DOMAIN cache}}

\* C27: a workspace symbol search that ran to its end returns the limit
\* highest-ranked candidates: as many as the limit allows, and none left
\* out ranks strictly above one returned, in whatever order the packages
\* were walked.
SymbolTopRanked ==
    (srun.pc = "done" /\ srun.resp.err = NoErr /\ ~srun.cancelSeen) =>
        LET hs == handleWorkspaceSymbol(sreq.params, sreq.root)
            all == SymbolCandidates(sreq.cache, hs.q)
            out == {srun.ranked[i] : i \in DOMAIN srun.ranked}
        IN  /\ out \subseteq all
            /\ Len(srun.ranked) = Min(hs.limit, Cardinality(all))
            /\ \A c \in all \ out : \A r \in out :
                  ~(RankedBefore(c, r) /\ ~RankedBefore(r, c))

(***************************************************************************)
(* The exported filter on the symbols of declarations: astPkgToSymbols on  *)
(* the declarations of one file, then handleSymbol on the package.         *)
(***************************************************************************)
MaxDecls == 2

\* The walk of astPkgToSymbols over the declarations nodes of the file.
RECURSIVE VisitAll(_, _)
VisitAll(c, nodes) ==
    IF nodes = <<>> THEN c
    ELSE VisitAll(Visit(c, Head(nodes)), Tail(nodes))

astPkgToSymbols(nodes) ==
    LET pkgSyms == VisitAll(NewCollector, nodes).pkgSyms
    IN  [k \in DOMAIN pkgSyms |-> pkgSyms[k].sym]

\* Functions and methods B and b, on no receiver and on value and pointer
\* receivers of the types T and t, and the two types.
ExportDecls ==
    {FuncDeclNode(name, recv) :
        name \in {<<"B">>, <<"b">>},
        recv \in {<<>>, <<RecvIdent(<<"T">>)>>, <<RecvStar(RecvIdent(<<"T">>))>>,
                  <<RecvIdent(<<"t">>)>>, <<RecvStar(RecvIdent(<<"t">>))>>}}
    \cup {TypeSpecNode(name, "Other", <<>>) : name \in {<<"T">>, <<"t">>}}

ExportQueries == {<<"i", "s", ":", "e", "x", "p", "o", "r", "t", "e", "d">>, <<"i", "s", ":", "e", "x", "p", "o", "r", "t", "e", "d", " ", "b">>}

ExportInit ==
    /\ fn \in [phase : {"input"}, name : {"exported"},
               nodes : SeqsUpTo(ExportDecls, MaxDecls), query : ExportQueries]
    /\ OthersIdle

\* handleWorkspaceSymbol without a limit on the package of the file.
ExportEval ==
    /\ fn.phase = "input"
    /\ fn.name = "exported"
    /\ LET hs == handleWorkspaceSymbol([Query |-> fn.query, Symbol |-> NoSymbol,
                                        Limit |-> 0], <<>>)
           pkg == SymPkg(NewCollector.pkg.path, NewCollector.pkg.name,
                         {NewCollector.file}, astPkgToSymbols(fn.nodes))
           results == SymbolWalkFunc(pkg, hs.q, hs.limit, <<>>)
       IN  \E ranked \in RankAndTruncate(results, hs.limit) :
              fn' = [phase |-> "done", name |-> "exported", nodes |-> fn.nodes,
                     query |-> fn.query, q |-> hs.q,
                     all |-> astPkgToSymbols(fn.nodes),
                     out |-> Results(ranked)]
    /\ UNCHANGED <<so, rc, req, run, ctxErr, sreq, srun, proj>>

ExportNext == ExportEval

SpecExport == ExportInit /\ [][ExportNext]_vars

\* The name of the type a declaration belongs to, <<>> when it has none.
ContainingType(node) ==
    IF node.type = "FuncDecl" /\ node.Recv # <<>>
    THEN IF node.Recv[1].kind = "StarExpr" THEN node.Recv[1].X.Name
         ELSE node.Recv[1].Name
    ELSE <<>>

\* C29: with is:exported the search returns exactly the symbols scored
\* above zero whose name is exported and whose containing type, if there
\* is one, is exported; an exported method of an exported type is returned
\* on a value receiver and on a pointer receiver alike.
ExportedExactly ==
    (fn.phase = "done" /\ fn.name = "exported") =>
        LET wanted == {k \in DOMAIN fn.nodes :
                          /\ score(fn.q, fn.all[k]) > 0
                          /\ IsExportedName(fn.nodes[k].Name)
                          /\ ContainingType(fn.nodes[k]) # <<>> =>
                                IsExportedName(ContainingType(fn.nodes[k]))}
        IN  /\ Len(fn.out) = Cardinality(wanted)
            /\ \A k \in wanted :
                  \E i \in DOMAIN fn.out :
                     /\ fn.out[i].Name = fn.all[k].Name
                     /\ fn.out[i].ContainerName = fn.all[k].ContainerName
                     /\ fn.out[i].Kind = fn.all[k].Kind

=============================================================================
